---------------------------- MODULE Spec2Model ----------------------------
(***************************************************************************)
(* Model of the analytics core of the case_locations dashboard:            *)
(*   - the company business-day calendar (src/src/holidays.py),            *)
(*   - the follow-up date resolver (src/src/date_parser.py),               *)
(*   - the efficiency upload pipeline, Stages 1-4 and their orchestration  *)
(*     (src/dashboard/data/efficiency_processing.py, efficiency_store.py,  *)
(*     routes/efficiency.py), starting from empty tables,                  *)
(*   - the background refresh loop with its midday jobs                    *)
(*     (src/dashboard/data/refresh.py, cache.py).                          *)
(*                                                                         *)
(* Spec is the upload pipeline; SpecCal, SpecHol, SpecFollowUp and         *)
(* SpecStages call the calendar functions, get_company_holidays, the date  *)
(* resolver and the single stages on inputs drawn from bounded sets;       *)
(* SpecResolve calls _resolve_year and SpecPeriods the period arithmetic   *)
(* of Stage 4 on every day of four years; SpecRefresh is the refresh loop  *)
(* over two days of wall-clock time.                                       *)
(*                                                                         *)
(* Dates are proleptic Gregorian ordinals (datetime.date.toordinal()).     *)
(* Hours read from the inputs are integers in thousandths of an hour and   *)
(* hours after a round(x, 2) in hundredths; the Efficiency column is in    *)
(* hundredths of a percent and an aggregated metric in hundredths, so that *)
(* round(x, 2) is an integer rounding.                                     *)
(***************************************************************************)
EXTENDS Integers, Sequences, FiniteSets

VARIABLES
    today,        \* date.today() of the server process
    csvHolidays,  \* the dates read from company_holidays.csv ({} = no file / empty)
    daily,        \* daily.parquet: the persisted historical table
    aggregated,   \* aggregated.parquet: the persisted aggregated view
    requests,     \* the number of upload requests received so far
    pc,           \* position of each upload request handler
    running,      \* the coroutine that holds the event-loop thread (0 = none)
    req,          \* each handler's local variables
    response,     \* the JSON response each handler returned
    calRef,       \* calendar calls: reference_date
    calArg,       \* calendar calls: the holidays argument (optional)
    calN,         \* calendar calls: the business-day count
    calOp,        \* calendar calls: the last function called
    calOut,       \* calendar calls: its result
    fnOp,         \* calls of the other pure functions: the function called
    fnIn,         \* ... its arguments
    fnOut,        \* ... its result
    clock,        \* the wall clock: seconds since midnight of today
    loopPc,       \* position of refresh_loop ("off" = not started)
    loopStart,    \* the date refresh_loop was started on
    fired,        \* _midday_jobs_fired
    jobs,         \* the _run_midday_job tasks created so far, in order
    failures,     \* _consecutive_failures of refresh_loop
    cache,        \* the DataCache singleton
    clockSteps    \* the number of times the wall clock was set back

vars == <<today, csvHolidays, daily, aggregated, requests, pc, running, req, response,
          calRef, calArg, calN, calOp, calOut, fnOp, fnIn, fnOut,
          clock, loopPc, loopStart, fired, jobs, failures, cache, clockSteps>>

pipeVars == <<daily, aggregated, requests, pc, running, req, response>>
calVars == <<calRef, calArg, calN, calOp, calOut>>
fnVars == <<fnOp, fnIn, fnOut>>
rfVars == <<clock, loopPc, loopStart, fired, jobs, failures, cache, clockSteps>>

-----------------------------------------------------------------------------
(* Optional arguments (Python's None default).                             *)

None == [given |-> FALSE, val |-> {}]
Some(v) == [given |-> TRUE, val |-> v]

\* the same for an optional or unparsable number
NoneInt == [given |-> FALSE, val |-> 0]
SomeInt(v) == [given |-> TRUE, val |-> v]

-----------------------------------------------------------------------------
(* datetime.date arithmetic.                                               *)

IsLeap(y) == (y % 4 = 0) /\ ((y % 100 # 0) \/ (y % 400 = 0))

DaysInMonth(y, m) ==
    IF m = 2 THEN (IF IsLeap(y) THEN 29 ELSE 28)
    ELSE IF m \in {4, 6, 9, 11} THEN 30 ELSE 31

DaysBeforeYear(y) ==
    LET p == y - 1 IN p * 365 + (p \div 4) - (p \div 100) + (p \div 400)

RECURSIVE DaysBeforeMonth(_, _)
DaysBeforeMonth(y, m) ==
    IF m = 1 THEN 0 ELSE DaysBeforeMonth(y, m - 1) + DaysInMonth(y, m - 1)

\* date(y, m, d).toordinal()
Ymd2Ord(y, m, d) == DaysBeforeYear(y) + DaysBeforeMonth(y, m) + d

\* date.fromordinal(n) as [year, month, day]
Ord2Ymd(n) ==
    LET n0   == n - 1
        n400 == n0 \div 146097
        r400 == n0 % 146097
        n100 == r400 \div 36524
        r100 == r400 % 36524
        n4   == r100 \div 1461
        r4   == r100 % 1461
        n1   == r4 \div 365
        r1   == r4 % 365
        y    == n400 * 400 + 1 + n100 * 100 + n4 * 4 + n1
    IN  IF n1 = 4 \/ n100 = 4
        THEN [year |-> y - 1, month |-> 12, day |-> 31]
        ELSE LET m == CHOOSE k \in 1..12 :
                          /\ DaysBeforeMonth(y, k) <= r1
                          /\ r1 < DaysBeforeMonth(y, k) + DaysInMonth(y, k)
             IN  [year |-> y, month |-> m, day |-> r1 - DaysBeforeMonth(y, m) + 1]

YearOf(n) == Ord2Ymd(n).year
MonthOf(n) == Ord2Ymd(n).month

\* date.weekday(): Monday = 0 ... Sunday = 6
Weekday(n) == (n + 6) % 7

-----------------------------------------------------------------------------
(* src/src/holidays.py                                                     *)

\* mutant: Thanksgiving taken as the third Thursday of November
GetCompanyHolidaysThirdThursday(year) ==
    LET may_31 == Ymd2Ord(year, 5, 31)
        memorial_day == may_31 - ((Weekday(may_31) + 1) % 7)
        sep_1 == Ymd2Ord(year, 9, 1)
        labor_day == sep_1 + ((7 - Weekday(sep_1)) % 7)
        nov_1 == Ymd2Ord(year, 11, 1)
        first_thursday == nov_1 + ((3 - Weekday(nov_1)) % 7)
        thanksgiving == first_thursday + 14
    IN  { Ymd2Ord(year, 1, 1), Ymd2Ord(year, 1, 2), memorial_day,
          Ymd2Ord(year, 7, 4), labor_day, Ymd2Ord(year, 11, 11),
          thanksgiving, thanksgiving + 1,
          Ymd2Ord(year, 12, 25), Ymd2Ord(year, 12, 26) }

\* mutant: Christmas Eve (the line commented out in the source) is a holiday too
GetCompanyHolidaysWithChristmasEve(year) ==
    LET may_31 == Ymd2Ord(year, 5, 31)
        memorial_day == may_31 - ((Weekday(may_31) + 1) % 7)
        sep_1 == Ymd2Ord(year, 9, 1)
        labor_day == sep_1 + ((7 - Weekday(sep_1)) % 7)
        nov_1 == Ymd2Ord(year, 11, 1)
        first_thursday == nov_1 + ((3 - Weekday(nov_1)) % 7)
        thanksgiving == first_thursday + 21
    IN  { Ymd2Ord(year, 1, 1), Ymd2Ord(year, 1, 2), memorial_day,
          Ymd2Ord(year, 7, 4), labor_day, Ymd2Ord(year, 11, 11),
          thanksgiving, thanksgiving + 1, Ymd2Ord(year, 12, 24),
          Ymd2Ord(year, 12, 25), Ymd2Ord(year, 12, 26) }

\* get_company_holidays(year): the computed calendar of one year
GetCompanyHolidays(year) ==
    LET may_31 == Ymd2Ord(year, 5, 31)
        memorial_day == may_31 - ((Weekday(may_31) + 1) % 7)
        sep_1 == Ymd2Ord(year, 9, 1)
        labor_day == sep_1 + ((7 - Weekday(sep_1)) % 7)
        nov_1 == Ymd2Ord(year, 11, 1)
        first_thursday == nov_1 + ((3 - Weekday(nov_1)) % 7)
        thanksgiving == first_thursday + 21
    IN  { Ymd2Ord(year, 1, 1), Ymd2Ord(year, 1, 2), memorial_day,
          Ymd2Ord(year, 7, 4), labor_day, Ymd2Ord(year, 11, 11),
          thanksgiving, thanksgiving + 1,
          Ymd2Ord(year, 12, 25), Ymd2Ord(year, 12, 26) }

StartYear == 2025

\* get_all_company_holidays(): the CSV when it holds a date, else the
\* computed calendar of StartYear .. this year + 2
GetAllCompanyHolidays ==
    IF csvHolidays # {} THEN csvHolidays
    ELSE UNION { GetCompanyHolidays(y) : y \in StartYear..(YearOf(today) + 2) }

\* the holidays a call uses: its argument, or get_all_company_holidays()
HolidaysOf(arg) == IF arg.given THEN arg.val ELSE GetAllCompanyHolidays

\* mutant: the loop skips weekends only
RECURSIVE PrevLoopWeekendsOnly(_, _)
PrevLoopWeekendsOnly(candidate, holidays) ==
    IF Weekday(candidate) >= 5
    THEN PrevLoopWeekendsOnly(candidate - 1, holidays)
    ELSE candidate

\* the loop of previous_business_day from one candidate on
RECURSIVE PrevLoop(_, _)
PrevLoop(candidate, holidays) ==
    IF Weekday(candidate) >= 5 \/ candidate \in holidays
    THEN PrevLoop(candidate - 1, holidays)
    ELSE candidate

PreviousBusinessDay(reference_date, holidays) ==
    PrevLoop(reference_date - 1, HolidaysOf(holidays))

\* the loop of next_x_business_days; returns candidate at loop exit
RECURSIVE NextLoop(_, _, _, _)
NextLoop(candidate, found, x, holidays) ==
    IF found < x
    THEN NextLoop(candidate + 1,
                  IF Weekday(candidate) < 5 /\ candidate \notin holidays
                  THEN found + 1 ELSE found,
                  x, holidays)
    ELSE candidate

DefaultDaysAhead == 5

\* mutant: the count starts on the reference date itself
NextXCountingReference(reference_date, x_days_ahead, holidays) ==
    LET x == IF x_days_ahead.given THEN x_days_ahead.val ELSE DefaultDaysAhead
    IN  NextLoop(reference_date, 0, x, HolidaysOf(holidays)) - 1

NextXBusinessDays(reference_date, x_days_ahead, holidays) ==
    LET x == IF x_days_ahead.given THEN x_days_ahead.val ELSE DefaultDaysAhead
    IN  NextLoop(reference_date + 1, 0, x, HolidaysOf(holidays)) - 1

-----------------------------------------------------------------------------
(* src/dashboard/data/efficiency_processing.py, _get_business_days_ago     *)

\* mutant: the loop steps back after the n-th business day too
RECURSIVE AgoLoopAlwaysStep(_, _, _, _)
AgoLoopAlwaysStep(candidate, count, n, holidays) ==
    IF count < n
    THEN AgoLoopAlwaysStep(candidate - 1,
                           IF Weekday(candidate) < 5 /\ candidate \notin holidays
                           THEN count + 1 ELSE count,
                           n, holidays)
    ELSE candidate

RECURSIVE AgoLoop(_, _, _, _)
AgoLoop(candidate, count, n, holidays) ==
    IF count < n
    THEN LET c1 == IF Weekday(candidate) < 5 /\ candidate \notin holidays
                   THEN count + 1 ELSE count
         IN  AgoLoop(IF c1 < n THEN candidate - 1 ELSE candidate, c1, n, holidays)
    ELSE candidate

\* mutant: the count starts on the reference date itself
GetBusinessDaysAgoFromReference(n, reference) ==
    AgoLoop(reference, 0, n, GetAllCompanyHolidays)

GetBusinessDaysAgo(n, reference) ==
    AgoLoop(reference - 1, 0, n, GetAllCompanyHolidays)

\* refresh.py _is_business_day, with the holiday set made explicit
IsBusinessDay(d, holidays) == Weekday(d) < 5 /\ d \notin holidays

-----------------------------------------------------------------------------
(* pandas helpers.  A DataFrame is [columns, rows]: the set of its column  *)
(* names and the sequence of its rows (records).  NaN in a text column is  *)
(* the marker NaN; an unparsable or blank number is NoneInt.               *)

NaN == "NaN"
EmptyFrame == [columns |-> {}, rows |-> <<>>]

Range(seq) == {seq[i] : i \in DOMAIN seq}

RECURSIVE SumSeq(_)
SumSeq(seq) == IF seq = <<>> THEN 0 ELSE Head(seq) + SumSeq(Tail(seq))

\* round(a / b) to the nearest integer, ties to even (numpy's round)
RoundDiv(a, b) ==
    LET n == IF b < 0 THEN -a ELSE a
        d == IF b < 0 THEN -b ELSE b
        q == n \div d
        r == n % d
    IN  IF 2 * r < d THEN q
        ELSE IF 2 * r > d THEN q + 1
        ELSE IF q % 2 = 0 THEN q ELSE q + 1

\* str(n) of an integer n >= 0, as its sequence of decimal digits
RECURSIVE IntToStr(_)
IntToStr(n) == IF n < 10 THEN <<n>> ELSE Append(IntToStr(n \div 10), n % 10)

\* a < b for two strings of digits (Python's str comparison)
RECURSIVE StrLess(_, _)
StrLess(a, b) ==
    IF b = <<>> THEN FALSE
    ELSE IF a = <<>> THEN TRUE
    ELSE IF Head(a) # Head(b) THEN Head(a) < Head(b)
    ELSE StrLess(Tail(a), Tail(b))

\* the rows of seq that satisfy Test, in order
Filter(seq, Test(_)) == SelectSeq(seq, Test)

AppendNew(seq, v) == IF v \in Range(seq) THEN seq ELSE Append(seq, v)

\* the values F(row), without repetition, in order of first appearance
UniqueOf(seq, F(_)) ==
    LET u[i \in 0..Len(seq)] ==
            IF i = 0 THEN <<>> ELSE AppendNew(u[i - 1], F(seq[i]))
    IN  u[Len(seq)]

\* row put into a sorted sequence before the first element it precedes
InsertSorted(sorted, row, Before(_, _)) ==
    LET after == {j \in DOMAIN sorted : Before(row, sorted[j])}
        k == IF after = {} THEN Len(sorted) + 1
             ELSE CHOOSE j \in after : \A j2 \in after : j <= j2
    IN  SubSeq(sorted, 1, k - 1) \o <<row>> \o SubSeq(sorted, k, Len(sorted))

\* a stable sort of seq by Before (insertion sort)
SortBy(seq, Before(_, _)) ==
    LET s[i \in 0..Len(seq)] ==
            IF i = 0 THEN <<>> ELSE InsertSorted(s[i - 1], seq[i], Before)
    IN  s[Len(seq)]

-----------------------------------------------------------------------------
(* Stage 1: stage1_task_processing.  A raw task row is                     *)
(* [CompletedBY, CaseNumber, completeDate, task, rejected, Duration] with  *)
(* completeDate = [day, minute] and Duration in thousandths of an hour.    *)

Stage1Columns == {"EmployeeID", "Cases_Worked_On", "Tasks_Completed", "Tasks_Duration_Hours"}

\* 1b: pd.to_numeric(errors="coerce").fillna(0)
DurationOf(t) == IF t.Duration.given THEN t.Duration.val ELSE 0

\* 1c: the text flag mapped by {"Yes": 1, "No": 0}, anything else 0
RejectedOf(t) == IF t.rejected = "Yes" THEN 1 ELSE 0

\* 1d: start <= CompleteDate < end + 1 day
InRange(t, start_date, end_date) ==
    t.completeDate.day >= start_date /\ t.completeDate.day < end_date + 1

TaskKey(t) == <<t.CaseNumber, t.completeDate, t.task, t.CompletedBY>>

\* mutant: only the rows flagged rejected are removed
AntiJoinRejectedRowsOnly(rows) ==
    LET Kept(t) == RejectedOf(t) # 1
    IN  Filter(rows, Kept)

\* 1e: the rows left by the anti-join against the rejected keys
AntiJoinRejected(rows) ==
    LET rejected == {TaskKey(t) : t \in {u \in Range(rows) : RejectedOf(u) = 1}}
        Kept(t) == TaskKey(t) \notin rejected
    IN  IF rejected # {} THEN Filter(rows, Kept) ELSE rows

\* 1f: one employee's aggregate over the remaining rows
Stage1Aggregate(rows, emp) ==
    LET Mine(t) == t.CompletedBY = emp
        mine == Filter(rows, Mine)
    IN  [EmployeeID |-> IntToStr(emp),
         Cases_Worked_On |-> Cardinality({t.CaseNumber : t \in Range(mine)}),
         Tasks_Completed |-> Len(mine),
         Tasks_Duration_Hours |->
             RoundDiv(SumSeq([i \in DOMAIN mine |-> DurationOf(mine[i])]), 10)]

Stage1TaskProcessing(raw_df, start_date, end_date) ==
    IF raw_df.rows = <<>> THEN [columns |-> Stage1Columns, rows |-> <<>>]
    ELSE LET In(t) == InRange(t, start_date, end_date)
             df == AntiJoinRejected(Filter(raw_df.rows, In))
             By(t) == t.CompletedBY
             IdBefore(a, b) == a < b
             emps == SortBy(UniqueOf(df, By), IdBefore)
         IN  [columns |-> Stage1Columns,
              rows |-> [i \in DOMAIN emps |-> Stage1Aggregate(df, emps[i])]]

-----------------------------------------------------------------------------
(* Stage 2: parse_gusto_filename and stage2_gusto_processing.              *)
(* A filename is a sequence of tokens, each a piece of text or a           *)
(* YYYY-MM-DD date (its ordinal).  A payroll export is [header, rows]: the *)
(* column names of its header line (none when the file ends before it)     *)
(* and its rows [Name, Total, Rest]; a numeric cell is [kind, val] with    *)
(* kind "num" (val in thousandths of an hour), "blank" or "text".          *)

Text(t) == [kind |-> "text", text |-> t, date |-> 0]
DateTok(d) == [kind |-> "date", text |-> "", date |-> d]

Num(v) == [kind |-> "num", val |-> v]
Blank == [kind |-> "blank", val |-> 0]
Junk == [kind |-> "text", val |-> 0]

Ok(v) == [raised |-> FALSE, message |-> "", value |-> v]
Raise(msg) == [raised |-> TRUE, message |-> msg, value |-> EmptyFrame]

\* mutant: a filename without the pattern is read as a period of no days
ParseGustoFilenameDefaulting(filename) ==
    LET hits == {i \in 1..(Len(filename) - 2) :
                    /\ filename[i].kind = "date"
                    /\ filename[i + 1] = Text("-to-")
                    /\ filename[i + 2].kind = "date"}
    IN  IF hits = {}
        THEN [raised |-> FALSE, message |-> "", start_date |-> 0, end_date |-> 0]
        ELSE LET i == CHOOSE j \in hits : \A k \in hits : j <= k
             IN  [raised |-> FALSE, message |-> "",
                  start_date |-> filename[i].date, end_date |-> filename[i + 2].date]

\* re.search(r"(\d{4}-\d{2}-\d{2})-to-(\d{4}-\d{2}-\d{2})", filename)
ParseGustoFilename(filename) ==
    LET hits == {i \in 1..(Len(filename) - 2) :
                    /\ filename[i].kind = "date"
                    /\ filename[i + 1] = Text("-to-")
                    /\ filename[i + 2].kind = "date"}
    IN  IF hits = {}
        THEN [raised |-> TRUE,
              message |-> "Cannot extract date range from filename",
              start_date |-> 0, end_date |-> 0]
        ELSE LET i == CHOOSE j \in hits : \A k \in hits : j <= k
             IN  [raised |-> FALSE, message |-> "",
                  start_date |-> filename[i].date, end_date |-> filename[i + 2].date]

\* pd.to_numeric(errors="coerce")
ToNumeric(cell) == IF cell.kind = "num" THEN SomeInt(cell.val) ELSE NoneInt

\* raw.iloc[:first_blank]: the rows before the first completely blank one
TruncateAtBlank(rows) ==
    LET blank == {i \in DOMAIN rows :
                     rows[i].Name = NaN /\ rows[i].Total.kind = "blank"
                                        /\ rows[i].Rest.kind = "blank"}
    IN  IF blank = {} THEN rows
        ELSE SubSeq(rows, 1, (CHOOSE i \in blank : \A j \in blank : i <= j) - 1)

\* 2a: (Total hours - Rest break.fillna(0)).fillna(0)
WorkHoursOf(row) ==
    LET total == ToNumeric(row.Total)
        rest == ToNumeric(row.Rest)
    IN  IF total.given THEN total.val - (IF rest.given THEN rest.val ELSE 0) ELSE 0

\* 2c-2f: the left join of one payroll row with the employee lookup
JoinLookup(row, lookup, start_date) ==
    LET Match(l) == l.GustoName = row.Name
        hits == Filter(lookup, Match)
    IN  IF hits = <<>>
        THEN << [Date |-> start_date, EmployeeID |-> 0, GustoName |-> NaN,
                 MTName |-> NaN, Team |-> NaN, TrainingPlan |-> 0,
                 WorkHours |-> WorkHoursOf(row)] >>
        ELSE [i \in DOMAIN hits |->
                 [Date |-> start_date, EmployeeID |-> hits[i].EmployeeID,
                  GustoName |-> hits[i].GustoName, MTName |-> hits[i].MTName,
                  Team |-> hits[i].Team, TrainingPlan |-> hits[i].TrainingPlan,
                  WorkHours |-> WorkHoursOf(row)]]

RECURSIVE Concat(_)
Concat(seqs) == IF seqs = <<>> THEN <<>> ELSE Head(seqs) \o Concat(Tail(seqs))

Stage2Columns ==
    {"Date", "EmployeeID", "Gusto Name", "MT Name", "Team", "Training Plan", "Work Hours"}

Stage2GustoProcessing(gusto, filename, lookup) ==
    LET parsed == ParseGustoFilename(filename)
        raw == TruncateAtBlank(gusto.rows)
    IN  IF parsed.raised THEN Raise(parsed.message)
        ELSE IF gusto.header = {} THEN Raise("No columns to parse from file")
        ELSE IF "Total hours" \notin gusto.header THEN Raise("'Total hours'")
        ELSE IF "Rest break" \notin gusto.header THEN Raise("'Rest break'")
        ELSE IF "Name" \notin gusto.header THEN Raise("['Name'] not in index")
        ELSE Ok([columns |-> Stage2Columns,
                 rows |-> Concat([i \in DOMAIN raw |->
                                     JoinLookup(raw[i], lookup, parsed.start_date)])])

-----------------------------------------------------------------------------
(* Stage 3: stage3_combine.                                                *)

Stage3Columns ==
    {"Date", "EmployeeID", "Gusto Name", "MT Name", "Team", "Training Plan",
     "Work Hours", "Cases_Worked_On", "Tasks_Completed", "Tasks_Duration_Hours",
     "Efficiency"}

\* mutant: a Work Hours of 0 is replaced by one hour
EfficiencyOfOneHour(duration, work_hours) ==
    IF work_hours = 0 THEN RoundDiv(duration * 100000, 1000)
    ELSE RoundDiv(duration * 100000, work_hours)

\* 3d: round(Tasks_Duration_Hours / Work Hours * 100, 2), 0 when Work Hours is 0
EfficiencyOf(duration, work_hours) ==
    IF work_hours = 0 THEN 0 ELSE RoundDiv(duration * 100000, work_hours)

\* 3a-3d for one payroll row: its inner join with the task aggregates
CombineRow(g, task_rows) ==
    LET Match(t) == t.EmployeeID = IntToStr(g.EmployeeID)
        hits == Filter(task_rows, Match)
    IN  [i \in DOMAIN hits |->
            [Date |-> g.Date, EmployeeID |-> IntToStr(g.EmployeeID),
             GustoName |-> g.GustoName, MTName |-> g.MTName, Team |-> g.Team,
             TrainingPlan |-> g.TrainingPlan,
             WorkHours |-> RoundDiv(g.WorkHours, 10),
             Cases_Worked_On |-> hits[i].Cases_Worked_On,
             Tasks_Completed |-> hits[i].Tasks_Completed,
             Tasks_Duration_Hours |-> hits[i].Tasks_Duration_Hours,
             Efficiency |-> EfficiencyOf(hits[i].Tasks_Duration_Hours, g.WorkHours)]]

Stage3Combine(task_df, gusto_df) ==
    [columns |-> Stage3Columns,
     rows |-> Concat([i \in DOMAIN gusto_df.rows |->
                         CombineRow(gusto_df.rows[i], task_df.rows)])]

-----------------------------------------------------------------------------
(* Stage 4: stage4_aggregated.  A metric cell is [tag, v]: a number v in   *)
(* hundredths ("val"), a missing value ("nan") or the text "x" ("x").      *)

DayLabels ==
    <<"Efficiency_1_Day_Ago", "Efficiency_2_Day_Ago", "Efficiency_3_Day_Ago",
      "Efficiency_4_Day_Ago", "Efficiency_5_Day_Ago">>
MonthLabels ==
    <<"Efficiency_Previous_Month", "Efficiency_2_Months_Ago", "Efficiency_3_Months_Ago",
      "Efficiency_4_Months_Ago", "Efficiency_5_Months_Ago", "Efficiency_6_Months_Ago",
      "Efficiency_7_Months_Ago", "Efficiency_8_Months_Ago", "Efficiency_9_Months_Ago",
      "Efficiency_10_Months_Ago", "Efficiency_11_Months_Ago", "Efficiency_12_Months_Ago">>
EffColumns ==
    Range(DayLabels) \cup {"Efficiency_Last_Week_Average", "Efficiency_Month_To_Date"}
                     \cup Range(MonthLabels)

\* the calendar month month_ref of year_ref, as [start, end]
MonthBounds(year_ref, month_ref) ==
    [start |-> Ymd2Ord(year_ref, month_ref, 1),
     end |-> IF month_ref = 12 THEN Ymd2Ord(year_ref + 1, 1, 1) - 1
             ELSE Ymd2Ord(year_ref, month_ref + 1, 1) - 1]

\* mutant: the month is brought back into 1..12, the year is left alone
MonthBackSameYear(year, month0) ==
    MonthBounds(year, ((month0 - 1) % 12) + 1)

\* month0 = reference.month - m, brought back into 1..12
MonthBack(year, month0) ==
    MonthBounds(year + ((month0 - 1) \div 12), ((month0 - 1) % 12) + 1)

Period(column, span) == [column |-> column, start |-> span.start, end |-> span.end]
OneDay(day) == [start |-> day, end |-> day]

\* the period of every metric column, as the set of [column, start, end];
\* ymd is reference as [year, month, day]
PeriodsOn(reference, ymd) ==
    {Period(DayLabels[n], OneDay(GetBusinessDaysAgo(n, reference))) : n \in DOMAIN DayLabels}
    \cup {Period("Efficiency_Last_Week_Average",
                 [start |-> reference - 7, end |-> reference - 1]),
          Period("Efficiency_Month_To_Date",
                 [start |-> Ymd2Ord(ymd.year, ymd.month, 1), end |-> reference])}
    \cup {Period(MonthLabels[m], MonthBack(ymd.year, ymd.month - m)) : m \in DOMAIN MonthLabels}

PeriodOf(reference) == PeriodsOn(reference, Ord2Ymd(reference))

NanCell == [tag |-> "nan", v |-> 0]
XCell == [tag |-> "x", v |-> 0]
ValCell(v) == [tag |-> "val", v |-> v]

\* the mean of the Efficiency values, times 0.01, rounded to 2 places
MeanCell(values) ==
    IF values = <<>> THEN NanCell
    ELSE ValCell(RoundDiv(SumSeq(values), Len(values) * 100))

EfficienciesOf(rows) == [i \in DOMAIN rows |-> rows[i].Efficiency]

\* mutant: the rows of efficiency 0 enter the mean
EffForPeriodZerosIncluded(rows, name, start, end) ==
    LET Hit(r) == /\ r.MTName = name
                  /\ r.Date >= start /\ r.Date <= end
    IN  MeanCell(EfficienciesOf(Filter(rows, Hit)))

\* _eff_for_period, then 4f: (mean * 0.01).round(2)
EffForPeriod(rows, name, start, end) ==
    LET Hit(r) == /\ r.MTName = name
                  /\ r.Date >= start /\ r.Date <= end
                  /\ r.Efficiency # 0
    IN  MeanCell(EfficienciesOf(Filter(rows, Hit)))

\* the display names of the model's employees, in alphabetical order
NameOrder == <<"Ann", "Bo", "Don William">>
NameRank(name) == CHOOSE i \in DOMAIN NameOrder : NameOrder[i] = name

\* df.groupby("MT Name")["Team"].first(): names sorted, NaN names dropped
EmployeesOf(rows) ==
    LET NameOf(r) == r.MTName
        Named(n) == n # NaN
        NameBefore(a, b) == NameRank(a) < NameRank(b)
    IN  SortBy(Filter(UniqueOf(rows, NameOf), Named), NameBefore)

FirstTeamOf(hits) == IF hits = <<>> THEN NaN ELSE hits[1].Team

\* groupby("MT Name")["Team"].first(): the first non-null Team of the employee
FirstTeam(rows, name) ==
    LET Hit(r) == r.MTName = name /\ r.Team # NaN
    IN  FirstTeamOf(Filter(rows, Hit))

MaxDate(rows) ==
    CHOOSE d \in {r.Date : r \in Range(rows)} : \A r \in Range(rows) : r.Date <= d

TrainingPlanOf(hits) == IF hits = <<>> THEN 0 ELSE hits[1].TrainingPlan

\* mutant: Training Plan of the employee's own first row, whatever its date
LatestTrainingPlanOwnDate(rows, name, max_date) ==
    LET Hit(r) == r.MTName = name
    IN  TrainingPlanOf(Filter(rows, Hit))

\* 4e: Training Plan of the most recent date, 0 for an employee not on it
LatestTrainingPlan(rows, name, max_date) ==
    LET Hit(r) == r.Date = max_date /\ r.MTName = name
    IN  TrainingPlanOf(Filter(rows, Hit))

\* the metric cells of every employee: the set of [employee, column, cell]
Stage4Cells(rows, employees, periods) ==
    {[employee |-> name, column |-> p.column,
      cell |-> EffForPeriod(rows, name, p.start, p.end)] :
         name \in Range(employees), p \in periods}

\* 4g and the drop of the columns that are entirely 0
KeptColumns(cells) ==
    {c \in EffColumns :
        /\ \E x \in cells : x.column = c /\ x.cell.tag # "nan"
        /\ \E x \in cells : x.column = c /\ x.cell # ValCell(0)}

\* 4g: a missing value of a kept column is shown as "x"
Shown(cell) == IF cell.tag = "nan" THEN XCell ELSE cell

CellOf(cells, name, c) ==
    Shown((CHOOSE x \in cells : x.employee = name /\ x.column = c).cell)

Stage4Frame(rows, employees, cells, kept, max_date) ==
    [columns |-> {"MT Name", "Team", "Training Plan"} \cup kept,
     rows |-> [i \in DOMAIN employees |->
                  [MTName |-> employees[i],
                   Team |-> FirstTeam(rows, employees[i]),
                   TrainingPlan |-> LatestTrainingPlan(rows, employees[i], max_date),
                   eff |-> [c \in kept |-> CellOf(cells, employees[i], c)]]]]

Stage4Metrics(rows, employees, cells) ==
    Stage4Frame(rows, employees, cells, KeptColumns(cells), MaxDate(rows))

Stage4Employees(rows, employees, reference) ==
    IF employees = <<>> THEN Raise("'MT Name'")
    ELSE Ok(Stage4Metrics(rows, employees,
                          Stage4Cells(rows, employees, PeriodOf(reference))))

Stage4Aggregated(all_daily_df, reference) ==
    IF all_daily_df.rows = <<>> THEN Ok(EmptyFrame)
    ELSE Stage4Employees(all_daily_df.rows, EmployeesOf(all_daily_df.rows), reference)

-----------------------------------------------------------------------------
(* efficiency_store.py and the merge of run_full_upload.                   *)

TeamFixNames ==
    {"Albert Cherniavskyi", "Andrii Mishyn", "Don William", "Olena Shypilova",
     "Vlad Dorofieiev"}

FixTeamAssignments(df) ==
    IF df.rows = <<>> \/ "Team" \notin df.columns THEN df
    ELSE [df EXCEPT !.rows =
             [i \in DOMAIN df.rows |->
                 IF df.rows[i].Team \in {"0", "O"} /\ df.rows[i].MTName \in TeamFixNames
                 THEN [df.rows[i] EXCEPT !.Team = "z_Not On Report"]
                 ELSE df.rows[i]]]

\* load_daily() of the stored table
LoadDaily(stored) == FixTeamAssignments(stored)

\* save_aggregated: the Efficiency_ columns are cast to str
AsSaved(df) ==
    [df EXCEPT !.rows =
        [i \in DOMAIN df.rows |->
            [df.rows[i] EXCEPT !.eff =
                [c \in DOMAIN df.rows[i].eff |-> [str |-> df.rows[i].eff[c]]]]]]

\* sort_values(["Date", "EmployeeID"], ascending=[False, True])
DailyBefore(a, b) ==
    \/ a.Date > b.Date
    \/ a.Date = b.Date /\ StrLess(a.EmployeeID, b.EmployeeID)

SortDaily(df) ==
    IF df.rows = <<>> THEN df ELSE [df EXCEPT !.rows = SortBy(df.rows, DailyBefore)]

\* mutant: the new rows are appended and no stored row is removed
MergeDailyAppendOnly(existing, daily_new) ==
    SortDaily(
        IF existing.rows # <<>> /\ daily_new.rows # <<>>
        THEN [columns |-> existing.columns \cup daily_new.columns,
              rows |-> existing.rows \o daily_new.rows]
        ELSE IF daily_new.rows # <<>> THEN daily_new
        ELSE existing)

\* lines 412-424: replace the rows of the new dates, then sort
MergeDaily(existing, daily_new) ==
    LET dates_to_replace == {r.Date : r \in Range(daily_new.rows)}
        Keep(r) == r.Date \notin dates_to_replace
    IN  SortDaily(
            IF existing.rows # <<>> /\ daily_new.rows # <<>>
            THEN [columns |-> existing.columns \cup daily_new.columns,
                  rows |-> Filter(existing.rows, Keep) \o daily_new.rows]
            ELSE IF daily_new.rows # <<>> THEN daily_new
            ELSE existing)

-----------------------------------------------------------------------------
(* dashboard/data/refresh.py and cache.py: the background refresh loop.    *)
(* The wall clock is the date today and clock, the seconds since midnight. *)

REFRESH_INTERVAL_SECONDS == 60
BUSINESS_HOURS_START == 6
BUSINESS_HOURS_END == 18

HourOf(seconds) == seconds \div 3600
MinuteOf(seconds) == (seconds % 3600) \div 60

\* the wall clock some seconds after (day, seconds)
Later(day, seconds, elapsed) ==
    [day |-> day + ((seconds + elapsed) \div 86400),
     sec |-> (seconds + elapsed) % 86400]

NoneText == [given |-> FALSE, val |-> ""]
SomeText(s) == [given |-> TRUE, val |-> s]
\* a timestamp the cache holds, kept to its date
NoneTime == [given |-> FALSE, day |-> 0]
SomeTime(t) == [given |-> TRUE, day |-> t.day]

QueryNames ==
    {"case_locations", "workload_status", "workload_pivot", "airway_workflow",
     "airway_hold_status", "submitted_cases", "daily_sales", "customers",
     "monthly_sales"}

\* DataCache(): the names that have an entry, and the three fields
NewCache ==
    [store |-> {}, last_refresh |-> NoneTime, refresh_error |-> NoneText,
     is_paused |-> FALSE]

\* DataCache.set for each of the names
CacheSet(c, names) == [c EXCEPT !.store = @ \cup names]

\* DataCache.set_last_refresh
SetLastRefresh(c, timestamp) ==
    [c EXCEPT !.last_refresh = SomeTime(timestamp), !.refresh_error = NoneText]

\* DataCache.set_error
SetError(c, error) == [c EXCEPT !.refresh_error = SomeText(error)]

\* DataCache.set_paused
SetPaused(c, paused) == [c EXCEPT !.is_paused = paused]

\* _is_business_hours
IsBusinessHours(seconds) ==
    BUSINESS_HOURS_START <= HourOf(seconds) /\ HourOf(seconds) < BUSINESS_HOURS_END

\* refresh_all_queries: gather(..., return_exceptions=True) hands the
\* exception of a query back as its result, the query is logged and
\* skipped, and the call itself returns
RefreshAllQueries(c, results, finished) ==
    [raised |-> FALSE, message |-> "",
     cache |-> SetLastRefresh(
                   CacheSet(c, {name \in QueryNames : results[name] = "frame"}),
                   finished)]

\* lines 134-154 for the result r of refresh_all_queries: the failure
\* count and the cache afterwards
AfterRefresh(r, count) ==
    IF r.raised
    THEN [failures |-> count + 1, cache |-> SetError(r.cache, r.message)]
    ELSE [failures |-> 0, cache |-> r.cache]

\* the hour of the window's job
MiddayHour(window) == IF window = "noon" THEN 12 ELSE 15

\* lines 160 and 166: the window's job is due at now
Due(window, day, seconds, done) ==
    /\ HourOf(seconds) = MiddayHour(window)
    /\ MinuteOf(seconds) = 0
    /\ <<window, day>> \notin done

\* mutant: the job is due whenever now is in the window's minute
DueWindowsUnguarded(day, seconds, done) ==
    {w \in {"noon", "3pm"} :
        HourOf(seconds) = MiddayHour(w) /\ MinuteOf(seconds) = 0}

\* lines 157-168: the jobs started by an iteration whose now is (day, seconds)
DueWindows(day, seconds, done) ==
    {w \in {"noon", "3pm"} : Due(w, day, seconds, done)}

\* lines 161, 167 and 171-172: _midday_jobs_fired after a business day's check
FiredAfter(day, due, done) ==
    {k \in done \cup {<<w, day>> : w \in due} : k[2] = day}

InitRefreshIdle ==
    /\ clock = 0
    /\ loopPc = "off"
    /\ loopStart = 0
    /\ fired = {}
    /\ jobs = <<>>
    /\ failures = 0
    /\ cache = NewCache
    /\ clockSteps = 0

-----------------------------------------------------------------------------
(* The inputs of the model: the employee lookup, the upload dates, the     *)
(* uploaded files and the task rows the database returns.                  *)

NumDates == 2
NumHandlers == 2
MaxDays == 1
MaxRequests == 3

TodayStart == Ymd2Ord(2025, 12, 2)

\* Mon Dec 1, Wed Nov 26, Fri Nov 21, ...
UploadDate(i) == TodayStart - 1 - 5 * (i - 1)
UploadDates == {UploadDate(i) : i \in 1..NumDates}
Handlers == 1..NumHandlers

\* User_Inputs/employee_lkups.csv
Lookup ==
    << [GustoName |-> "Ann Lee", EmployeeID |-> 101, MTName |-> "Ann",
        Team |-> "Metal", TrainingPlan |-> 0],
       [GustoName |-> "Don William", EmployeeID |-> 102, MTName |-> "Don William",
        Team |-> "0", TrainingPlan |-> 1],
       [GustoName |-> "Bo Park", EmployeeID |-> 103, MTName |-> "Bo",
        Team |-> "Metal", TrainingPlan |-> 0] >>

GoodName(d) == <<Text("gusto_hours_"), DateTok(d), Text("-to-"), DateTok(d + 1), Text(".csv")>>
NoDateName == <<Text("gusto_hours.csv")>>
WrongSeparatorName(d) == <<Text("gusto_"), DateTok(d), Text("_to_"), DateTok(d + 1)>>
Filenames ==
    {GoodName(d) : d \in UploadDates} \cup {NoDateName, WrongSeparatorName(UploadDate(1))}

PRow(name, total, rest) == [Name |-> name, Total |-> total, Rest |-> rest]
FullHeader == {"Name", "Regular hours", "Total hours", "Rest break"}

GustoExports ==
    { \* three employees of the lookup, one with an unparsable total, then a
      \* blank row and the totals row
      [header |-> FullHeader,
       rows |-> <<PRow("Ann Lee", Num(8000), Num(500)), PRow("Don William", Num(8005), Blank),
                  PRow("Bo Park", Junk, Num(500)),
                  PRow(NaN, Blank, Blank), PRow("Totals", Num(16005), Num(1000))>>],
      \* two names the lookup does not hold
      [header |-> FullHeader,
       rows |-> <<PRow("Temp One", Num(8000), Blank), PRow("Temp Two", Num(6000), Blank)>>],
      \* no row
      [header |-> FullHeader, rows |-> <<>>],
      \* no 'Rest break' column
      [header |-> {"Name", "Regular hours", "Total hours"},
       rows |-> <<PRow("Ann Lee", Num(8000), Blank)>>],
      \* no 'Total hours' column
      [header |-> {"Name", "Regular hours", "Rest break"},
       rows |-> <<PRow("Ann Lee", Blank, Num(500))>>],
      \* no 'Name' column
      [header |-> {"Employee", "Total hours", "Rest break"},
       rows |-> <<PRow(NaN, Num(8000), Num(500))>>],
      \* the file ends before the header line
      [header |-> {}, rows |-> <<>>] }

RawTaskColumns ==
    {"CompletedBY", "CaseNumber", "completeDate", "task", "rejected", "Quantity",
     "CaseProductID", "Duration"}

Task(emp, case, day, minute, name, rejected, duration) ==
    [CompletedBY |-> emp, CaseNumber |-> case,
     completeDate |-> [day |-> day, minute |-> minute],
     task |-> name, rejected |-> rejected, Duration |-> duration]

\* what the database can return for the period start_date .. end_date
TaskResults(start_date, end_date) ==
    { [columns |-> RawTaskColumns, rows |-> <<>>],
      [columns |-> RawTaskColumns,
       rows |-> << Task(101, 1, start_date, 600, "Trim", "No", SomeInt(1500)),
                   Task(101, 1, end_date, 610, "Polish", "No", SomeInt(333)),
                   Task(101, 2, start_date, 700, "Trim", "Yes", SomeInt(2000)),
                   Task(101, 2, start_date, 700, "Trim", "No", SomeInt(2000)),
                   Task(102, 3, start_date, 800, "Weld", "No", SomeInt(4000)),
                   Task(102, 3, start_date, 830, "Weld", "No", NoneInt),
                   Task(103, 7, start_date, 840, "Scan", "No", SomeInt(500)),
                   Task(102, 4, end_date + 1, 5, "Weld", "No", SomeInt(1000)) >>],
      [columns |-> RawTaskColumns,
       rows |-> << Task(0, 5, start_date, 900, "Scan", "No", SomeInt(3000)),
                   Task(101, 6, end_date, 905, "Trim", "No", SomeInt(2000)) >>] }

-----------------------------------------------------------------------------
(* The upload handler (routes/efficiency.py efficiency_upload) and         *)
(* run_full_upload, step by step.  All handlers are coroutines of the one  *)
(* event loop uvicorn runs: a handler runs from one await to the next.     *)

EmptyGusto == [header |-> {}, rows |-> <<>>]

ReqIdle ==
    [filename |-> <<>>, gusto |-> EmptyGusto, start_date |-> 0, end_date |-> 0,
     raw_tasks |-> EmptyFrame, task_df |-> EmptyFrame, gusto_df |-> EmptyFrame,
     daily_new |-> EmptyFrame, existing |-> EmptyFrame, combined |-> EmptyFrame,
     agg_df |-> EmptyFrame]

NoResponse ==
    [status |-> "none", message |-> "", new_rows |-> 0, total_daily_rows |-> 0,
     aggregated_rows |-> 0]

ErrorResponse(msg) == [NoResponse EXCEPT !.status = "error", !.message = msg]

\* mutant: run_full_upload is handed to an executor thread, so no coroutine
\* holds the event loop while it runs
LoopHolderInExecutor(h) == 0

\* the coroutine that holds the event-loop thread while handler h runs
\* run_full_upload: the call is synchronous, so h itself
LoopHolder(h) == h

InitPipe ==
    /\ daily = EmptyFrame
    /\ aggregated = EmptyFrame
    /\ requests = 0
    /\ pc = [h \in Handlers |-> "idle"]
    /\ running = 0
    /\ req = [h \in Handlers |-> ReqIdle]
    /\ response = [h \in Handlers |-> NoResponse]

InitCalIdle ==
    /\ calRef = 0
    /\ calArg = None
    /\ calN = NoneInt
    /\ calOp = "none"
    /\ calOut = 0

InitFnIdle ==
    /\ fnOp = "none"
    /\ fnIn = <<>>
    /\ fnOut = <<>>

Init ==
    /\ today = TodayStart
    /\ csvHolidays = {}
    /\ InitPipe
    /\ InitCalIdle
    /\ InitRefreshIdle
    /\ InitFnIdle

\* the request arrives; the handler starts and awaits file.read()
Begin(h) ==
    /\ pc[h] = "idle"
    /\ running = 0
    /\ requests < MaxRequests
    /\ requests' = requests + 1
    /\ pc' = [pc EXCEPT ![h] = "read"]
    /\ UNCHANGED <<today, csvHolidays, daily, aggregated, running, req,
                   response, calVars, fnVars, rfVars>>

\* file.read() returns the upload; the handler calls run_full_upload
Resume(h) ==
    /\ pc[h] = "read"
    /\ running = 0
    /\ \E filename \in Filenames, gusto \in GustoExports :
           req' = [req EXCEPT ![h] = [ReqIdle EXCEPT !.filename = filename,
                                                      !.gusto = gusto]]
    /\ running' = LoopHolder(h)
    /\ pc' = [pc EXCEPT ![h] = "parse"]
    /\ UNCHANGED <<requests, today, csvHolidays, daily, aggregated, response, calVars, fnVars, rfVars>>

\* an exception leaves run_full_upload: the handler answers 400
Fail(h, msg) ==
    /\ response' = [response EXCEPT ![h] = ErrorResponse(msg)]
    /\ pc' = [pc EXCEPT ![h] = "done"]
    /\ req' = [req EXCEPT ![h] = ReqIdle]
    /\ running' = 0

\* lines 403-409: Stages 1-3 on the fetched rows
Staged(h, parsed, raw, task_df, g) ==
    IF g.raised
    THEN Fail(h, g.message)
    ELSE /\ req' = [req EXCEPT ![h] =
                      [@ EXCEPT !.start_date = parsed.start_date,
                                !.end_date = parsed.end_date,
                                !.raw_tasks = raw,
                                !.task_df = task_df,
                                !.gusto_df = g.value,
                                !.daily_new = Stage3Combine(task_df, g.value)]]
         /\ pc' = [pc EXCEPT ![h] = "merge"]
         /\ UNCHANGED <<running, response>>

\* lines 398-402: the period of the filename, then the task rows of the period
Fetched(h, parsed) ==
    IF parsed.raised
    THEN Fail(h, parsed.message)
    ELSE \E raw \in TaskResults(parsed.start_date, parsed.end_date) :
             Staged(h, parsed, raw,
                    Stage1TaskProcessing(raw, parsed.start_date, parsed.end_date),
                    Stage2GustoProcessing(req[h].gusto, req[h].filename, Lookup))

\* lines 398-409: parse the filename, fetch the tasks, Stages 1-3
RunStages(h) ==
    /\ pc[h] = "parse"
    /\ running = LoopHolder(h)
    /\ Fetched(h, ParseGustoFilename(req[h].filename))
    /\ UNCHANGED <<requests, today, csvHolidays, daily, aggregated, calVars, fnVars, rfVars>>

\* the locals of run_full_upload that are live after the merge
Merged(daily_new, existing) ==
    [ReqIdle EXCEPT !.daily_new = daily_new,
                    !.existing = existing,
                    !.combined = MergeDaily(existing, daily_new)]

\* lines 412-424: load the table, replace the rows of the new dates, sort
LoadAndMerge(h) ==
    /\ pc[h] = "merge"
    /\ running = LoopHolder(h)
    /\ req' = [req EXCEPT ![h] = Merged(req[h].daily_new, LoadDaily(daily))]
    /\ pc' = [pc EXCEPT ![h] = "save_daily"]
    /\ UNCHANGED <<requests, today, csvHolidays, daily, aggregated, running, response,
                   calVars, fnVars, rfVars>>

\* line 426: save_daily(combined)
SaveDaily(h) ==
    /\ pc[h] = "save_daily"
    /\ running = LoopHolder(h)
    /\ daily' = req[h].combined
    /\ pc' = [pc EXCEPT ![h] = "stage4"]
    /\ UNCHANGED <<requests, today, csvHolidays, aggregated, running, req, response,
                   calVars, fnVars, rfVars>>

Aggregated(h, r) ==
    IF r.raised
    THEN Fail(h, r.message)
    ELSE /\ req' = [req EXCEPT ![h] = [@ EXCEPT !.agg_df = r.value]]
         /\ pc' = [pc EXCEPT ![h] = "save_agg"]
         /\ UNCHANGED <<running, response>>

\* mutant: the aggregated view is computed from the new rows only
RunStage4OnNewRows(h) ==
    /\ pc[h] = "stage4"
    /\ running = LoopHolder(h)
    /\ Aggregated(h, Stage4Aggregated(req[h].daily_new, today))
    /\ UNCHANGED <<requests, today, csvHolidays, daily, aggregated, calVars, fnVars, rfVars>>

\* line 429: agg_df = stage4_aggregated(combined)
RunStage4(h) ==
    /\ pc[h] = "stage4"
    /\ running = LoopHolder(h)
    /\ Aggregated(h, Stage4Aggregated(req[h].combined, today))
    /\ UNCHANGED <<requests, today, csvHolidays, daily, aggregated, calVars, fnVars, rfVars>>

\* mutant: the stored view is kept once it has rows, and only an empty one
\* is replaced
SaveAggregatedOnce(h) ==
    /\ pc[h] = "save_agg"
    /\ running = LoopHolder(h)
    /\ aggregated' = IF aggregated.rows # <<>> THEN aggregated
                     ELSE AsSaved(req[h].agg_df)
    /\ response' = [response EXCEPT ![h] =
                       [status |-> "ok", message |-> "",
                        new_rows |-> Len(req[h].daily_new.rows),
                        total_daily_rows |-> Len(req[h].combined.rows),
                        aggregated_rows |-> Len(req[h].agg_df.rows)]]
    /\ pc' = [pc EXCEPT ![h] = "done"]
    /\ req' = [req EXCEPT ![h] = ReqIdle]
    /\ running' = 0
    /\ UNCHANGED <<requests, today, csvHolidays, daily, calVars, fnVars, rfVars>>

\* lines 430-438: save_aggregated(agg_df) and the result
SaveAggregated(h) ==
    /\ pc[h] = "save_agg"
    /\ running = LoopHolder(h)
    /\ aggregated' = AsSaved(req[h].agg_df)
    /\ response' = [response EXCEPT ![h] =
                       [status |-> "ok", message |-> "",
                        new_rows |-> Len(req[h].daily_new.rows),
                        total_daily_rows |-> Len(req[h].combined.rows),
                        aggregated_rows |-> Len(req[h].agg_df.rows)]]
    /\ pc' = [pc EXCEPT ![h] = "done"]
    /\ req' = [req EXCEPT ![h] = ReqIdle]
    /\ running' = 0
    /\ UNCHANGED <<requests, today, csvHolidays, daily, calVars, fnVars, rfVars>>

\* the client has the response
Finish(h) ==
    /\ pc[h] = "done"
    /\ pc' = [pc EXCEPT ![h] = "idle"]
    /\ response' = [response EXCEPT ![h] = NoResponse]
    /\ UNCHANGED <<requests, today, csvHolidays, daily, aggregated, running, req, calVars, fnVars, rfVars>>

\* the server process dies and is started again: the files stay
Crash ==
    /\ \E h \in Handlers : pc[h] # "idle"
    /\ pc' = [h \in Handlers |-> "idle"]
    /\ running' = 0
    /\ req' = [h \in Handlers |-> ReqIdle]
    /\ response' = [h \in Handlers |-> NoResponse]
    /\ UNCHANGED <<requests, today, csvHolidays, daily, aggregated, calVars, fnVars, rfVars>>

\* midnight
AdvanceDay ==
    /\ today < TodayStart + MaxDays
    /\ today' = today + 1
    /\ UNCHANGED <<csvHolidays, pipeVars, calVars, fnVars, rfVars>>

Next ==
    \/ \E h \in Handlers :
          \/ Begin(h)
          \/ Resume(h)
          \/ RunStages(h)
          \/ LoadAndMerge(h)
          \/ SaveDaily(h)
          \/ RunStage4(h)
          \/ SaveAggregated(h)
          \/ Finish(h)
    \/ Crash
    \/ AdvanceDay

Spec == Init /\ [][Next]_vars

-----------------------------------------------------------------------------
(* Properties of the upload pipeline.                                      *)

Count(seq, r) == Cardinality({i \in DOMAIN seq : seq[i] = r})

\* a and b hold the same rows, each as many times
SameRows(a, b) ==
    /\ Len(a) = Len(b)
    /\ \A r \in Range(a) \cup Range(b) : Count(a, r) = Count(b, r)

DatesOf(rows) == {r.Date : r \in Range(rows)}

\* C1: after any sequence of runs from the empty table, the stored daily
\* table holds at most one row for each (EmployeeID, Date) pair.
C1_OneRowPerEmployeeDate ==
    \A i, j \in DOMAIN daily.rows :
        (daily.rows[i].EmployeeID = daily.rows[j].EmployeeID
            /\ daily.rows[i].Date = daily.rows[j].Date) => i = j

\* the rows of the stored table dated outside D, in the order stored
OutsideDates(rows, D) ==
    LET Keep(r) == r.Date \notin D IN Filter(rows, Keep)

\* the save of a run whose new rows are not empty
SavesNewRows(h) ==
    /\ pc[h] = "save_daily"
    /\ pc'[h] = "stage4"
    /\ req[h].daily_new.rows # <<>>

\* C2 as amended: when a run saves non-empty new rows dated D, the saved
\* table is the stored rows dated outside D as load_daily returns them
\* (Team "0"/"O" of the listed employees rewritten) plus all the new rows.
C2_SavedTableIsLoadedRowsPlusNew ==
    [][\A h \in Handlers :
          SavesNewRows(h) =>
              SameRows(daily'.rows,
                       OutsideDates(LoadDaily(daily).rows, DatesOf(req[h].daily_new.rows))
                           \o req[h].daily_new.rows)]_vars

\* C2 as stated: the stored rows dated outside D are kept unchanged.
C2_StoredRowsUnchanged ==
    [][\A h \in Handlers :
          SavesNewRows(h) =>
              SameRows(daily'.rows,
                       OutsideDates(daily.rows, DatesOf(req[h].daily_new.rows))
                           \o req[h].daily_new.rows)]_vars

\* a run has saved new rows over a table that held rows of the same date
\* and rows of another date
C2_Witness ==
    \E h \in Handlers :
        /\ pc[h] = "stage4"
        /\ req[h].daily_new.rows # <<>>
        /\ daily = req[h].combined
        /\ \E r \in Range(req[h].existing.rows) :
               r.Date \in DatesOf(req[h].daily_new.rows)
        /\ \E r \in Range(req[h].existing.rows) :
               r.Date \notin DatesOf(req[h].daily_new.rows)

\* the stored view agg is what save_aggregated writes of Stage 4's result r
SavedFrom(agg, r) == ~r.raised /\ agg = AsSaved(r.value)

\* the aggregated view agg is Stage 4 of table tbl, computed on one of the
\* days up to today
Consistent(agg, tbl) ==
    \E reference \in TodayStart..today : SavedFrom(agg, Stage4Aggregated(tbl, reference))

\* C3: no step writes both tables; the aggregated view is written only by a
\* run that has already saved its merged table, and that write, which
\* completes the run, leaves the view consistent with the stored table.
C3_HistoricalBeforeAggregated ==
    [][/\ ~(daily' # daily /\ aggregated' # aggregated)
       /\ \A h \in Handlers :
             (pc[h] = "save_agg" /\ pc'[h] = "done") =>
                 /\ response'[h].status = "ok"
                 /\ daily = req[h].combined
                 /\ Consistent(aggregated', daily')
       /\ aggregated' # aggregated =>
             \E h \in Handlers : pc[h] = "save_agg" /\ pc'[h] = "done"
       /\ daily' # daily =>
             \E h \in Handlers : pc[h] = "save_daily" /\ pc'[h] = "stage4"]_vars

\* after a crash between the two saves: no run in progress, the stored
\* table holds named employees and the aggregated view is still empty
C3_Witness ==
    /\ \A h \in Handlers : pc[h] = "idle"
    /\ aggregated.rows = <<>>
    /\ \E r \in Range(daily.rows) : r.MTName # NaN

\* h is between its load of the daily table and its save of the view
InRun(h) == pc[h] \in {"save_daily", "stage4", "save_agg"}

\* C4: at most one run is between its load of the daily table and its save
\* of the aggregated view, and the table it loaded or saved is still the
\* stored one: no other run has written in between.
C4_RunsDoNotInterleave ==
    \A h \in Handlers :
        /\ InRun(h) => \A g \in Handlers : pc[g] \in {"idle", "read", "done"} \/ g = h
        /\ pc[h] = "save_daily" => req[h].existing = LoadDaily(daily)
        /\ pc[h] \in {"stage4", "save_agg"} => daily = req[h].combined

\* a second request is waiting for its upload while a run is between the
\* two saves
C4_Witness ==
    \E h, g \in Handlers : h # g /\ pc[h] = "stage4" /\ pc[g] = "read"

\* the filename holds no YYYY-MM-DD-to-YYYY-MM-DD
NoDateRange(filename) ==
    ~\E i \in 1..(Len(filename) - 2) :
        /\ filename[i].kind = "date"
        /\ filename[i + 1] = Text("-to-")
        /\ filename[i + 2].kind = "date"

RequiredColumns == {"Name", "Total hours", "Rest break"}

FormatError(r) == NoDateRange(r.filename) \/ ~(RequiredColumns \subseteq r.gusto.header)

\* C5: a run whose filename lacks the date range or whose export lacks a
\* required column ends, in that step, in an error response that carries a
\* reason, and both stored tables are left as they were.
C5_FormatErrorFails ==
    [][\A h \in Handlers :
          (pc[h] = "parse" /\ FormatError(req[h]) /\ pc'[h] \notin {"parse", "idle"}) =>
              /\ pc'[h] = "done"
              /\ response'[h].status = "error"
              /\ response'[h].message # ""
              /\ daily' = daily
              /\ aggregated' = aggregated]_vars

\* an upload without the 'Rest break' column has been refused while the
\* tables held data
C5_Witness ==
    \E h \in Handlers :
        /\ pc[h] = "done"
        /\ response[h] = ErrorResponse("'Rest break'")
        /\ daily.rows # <<>>
        /\ aggregated.rows # <<>>

Stage4BaseColumns == {"MT Name", "Team", "Training Plan"}

\* C6: each stage given an empty input returns, without raising, an empty
\* output that has the stage's columns.
C6_EmptyInEmptyOut ==
    [][\A h \in Handlers :
          /\ (pc[h] = "parse" /\ pc'[h] = "merge") =>
                /\ req'[h].raw_tasks.rows = <<>> =>
                      /\ req'[h].task_df.rows = <<>>
                      /\ req'[h].task_df.columns = Stage1Columns
                /\ req[h].gusto.rows = <<>> =>
                      /\ req'[h].gusto_df.rows = <<>>
                      /\ req'[h].gusto_df.columns = Stage2Columns
                /\ (req'[h].task_df.rows = <<>> /\ req'[h].gusto_df.rows = <<>>) =>
                      /\ req'[h].daily_new.rows = <<>>
                      /\ req'[h].daily_new.columns = Stage3Columns
          /\ (pc[h] = "parse" /\ req[h].gusto.rows = <<>> /\ ~FormatError(req[h])) =>
                pc'[h] # "done"
          /\ (pc[h] = "stage4" /\ req[h].combined.rows = <<>>
                 /\ pc'[h] \notin {"stage4", "idle"}) =>
                /\ pc'[h] = "save_agg"
                /\ req'[h].agg_df.rows = <<>>
                /\ Stage4BaseColumns \subseteq req'[h].agg_df.columns]_vars

-----------------------------------------------------------------------------
(* Calls of the calendar functions: every reference date of a window       *)
(* around Thanksgiving 2025, every CSV holiday list drawn from a pool of   *)
(* dates of that window (the empty list selects the computed calendar),    *)
(* an explicit or defaulted holidays argument and every count up to MaxN.  *)

CalStart == Ymd2Ord(2025, 11, 20)
CalSpan == 13
MaxN == 5
RefDates == CalStart..(CalStart + CalSpan)
\* Fri Nov 21, Mon Nov 24, Tue Nov 25, Wed Nov 26, Sat Nov 29
HolidayPool == {CalStart + 1, CalStart + 4, CalStart + 5, CalStart + 6, CalStart + 9}
HolidayArgs == {None, Some({}), Some({CalStart + 4, CalStart + 7, CalStart + 8})}
CountArgs == {NoneInt} \cup {SomeInt(n) : n \in 0..MaxN}

\* the count a call of next_x_business_days uses
CountOf(arg) == IF arg.given THEN arg.val ELSE DefaultDaysAhead

InitCal ==
    /\ today = TodayStart
    /\ csvHolidays \in SUBSET HolidayPool
    /\ calRef \in RefDates
    /\ calArg \in HolidayArgs
    /\ calN \in CountArgs
    /\ calOp = "none"
    /\ calOut = 0
    /\ InitPipe
    /\ InitRefreshIdle
    /\ InitFnIdle

CallPreviousBusinessDay ==
    /\ calOp' = "previous_business_day"
    /\ calOut' = PreviousBusinessDay(calRef, calArg)
    /\ UNCHANGED <<today, csvHolidays, calRef, calArg, calN, pipeVars, fnVars, rfVars>>

CallNextXBusinessDays ==
    /\ calOp' = "next_x_business_days"
    /\ calOut' = NextXBusinessDays(calRef, calN, calArg)
    /\ UNCHANGED <<today, csvHolidays, calRef, calArg, calN, pipeVars, fnVars, rfVars>>

CallGetBusinessDaysAgo ==
    /\ calN.given
    /\ calOp' = "_get_business_days_ago"
    /\ calOut' = GetBusinessDaysAgo(calN.val, calRef)
    /\ UNCHANGED <<today, csvHolidays, calRef, calArg, calN, pipeVars, fnVars, rfVars>>

\* the n-th business day after calRef, then the n-th business day before it
CallRoundTrip ==
    /\ calN.given
    /\ calOp' = "round_trip"
    /\ calOut' = GetBusinessDaysAgo(calN.val, NextXBusinessDays(calRef, calN, calArg))
    /\ UNCHANGED <<today, csvHolidays, calRef, calArg, calN, pipeVars, fnVars, rfVars>>

NextCal ==
    \/ CallPreviousBusinessDay
    \/ CallNextXBusinessDays
    \/ CallGetBusinessDaysAgo
    \/ CallRoundTrip

SpecCal == InitCal /\ [][NextCal]_vars

\* business days of an interval, counted from the definition
BusinessDaysIn(lo, hi, holidays) ==
    Cardinality({d \in lo..hi : IsBusinessDay(d, holidays)})

(* C7: previous_business_day returns a date strictly before the reference  *)
(* that is no Saturday, Sunday or holiday, and every day strictly between  *)
(* the result and the reference is a weekend day or a holiday.             *)
C7_PreviousBusinessDay ==
    calOp = "previous_business_day" =>
        LET H == HolidaysOf(calArg) IN
        /\ calOut < calRef
        /\ Weekday(calOut) \notin {5, 6}
        /\ calOut \notin H
        /\ \A d \in (calOut + 1)..(calRef - 1) : Weekday(d) \in {5, 6} \/ d \in H

\* a call that skipped a weekday holiday and a weekend
C7_Witness ==
    /\ calOp = "previous_business_day"
    /\ \E d \in (calOut + 1)..(calRef - 1) : Weekday(d) < 5 /\ d \in HolidaysOf(calArg)
    /\ \E d \in (calOut + 1)..(calRef - 1) : Weekday(d) = 6

(* C8: for n >= 1, next_x_business_days(ref, n) returns a business day     *)
(* strictly after ref with exactly n business days in (ref, result]; the   *)
(* reference date is never counted.                                        *)
C8_NextXBusinessDays ==
    (calOp = "next_x_business_days" /\ CountOf(calN) >= 1) =>
        LET H == HolidaysOf(calArg) IN
        /\ calOut > calRef
        /\ IsBusinessDay(calOut, H)
        /\ BusinessDaysIn(calRef + 1, calOut, H) = CountOf(calN)

\* a call from a business day that skipped non-business days
C8_Witness ==
    /\ calOp = "next_x_business_days"
    /\ calN.given /\ calN.val >= 2
    /\ IsBusinessDay(calRef, HolidaysOf(calArg))
    /\ calOut - calRef > calN.val

(* C9: for n >= 1, _get_business_days_ago(n, ref) is the mirror image of   *)
(* next_x_business_days: it returns a business day strictly before ref     *)
(* with exactly n business days in [result, ref), and counting n business  *)
(* days forward from the day before the result ends on the last business   *)
(* day before ref.                                                         *)
C9_BusinessDaysAgo ==
    (calOp = "_get_business_days_ago" /\ calN.val >= 1) =>
        LET H == GetAllCompanyHolidays IN
        /\ calOut < calRef
        /\ IsBusinessDay(calOut, H)
        /\ BusinessDaysIn(calOut, calRef - 1, H) = calN.val
        /\ NextXBusinessDays(calOut - 1, calN, None) = PreviousBusinessDay(calRef, None)

\* a call from a business day that skipped non-business days
C9_Witness ==
    /\ calOp = "_get_business_days_ago"
    /\ calN.val >= 2
    /\ IsBusinessDay(calRef, GetAllCompanyHolidays)
    /\ calRef - calOut > calN.val

(* C10: when both functions read the same holiday set, the n-th business   *)
(* day before the n-th business day after d (n >= 1, n = 5 included) is a  *)
(* business day on or before d, and is d exactly when d is a business day. *)
C10_RoundTrip ==
    (/\ calOp = "round_trip"
     /\ calN.val >= 1
     /\ HolidaysOf(calArg) = GetAllCompanyHolidays) =>
        LET H == GetAllCompanyHolidays IN
        /\ IsBusinessDay(calOut, H)
        /\ calOut <= calRef
        /\ (calOut = calRef) <=> IsBusinessDay(calRef, H)

\* a round trip of 5 business days from a holiday, which ends before it
C10_Witness ==
    /\ calOp = "round_trip"
    /\ calN.val = 5
    /\ HolidaysOf(calArg) = GetAllCompanyHolidays
    /\ Weekday(calRef) < 5
    /\ calRef \in GetAllCompanyHolidays
    /\ calOut < calRef

-----------------------------------------------------------------------------
(* src/src/date_parser.py                                                  *)
(* A text is a sequence of one-character strings.                          *)

\* the character at position i of a text, "" past its end
At(text, i) == IF i \in DOMAIN text THEN text[i] ELSE ""

IsDigit(c) == c \in {"0", "1", "2", "3", "4", "5", "6", "7", "8", "9"}

DigitVal(c) ==
    CASE c = "0" -> 0 [] c = "1" -> 1 [] c = "2" -> 2 [] c = "3" -> 3
      [] c = "4" -> 4 [] c = "5" -> 5 [] c = "6" -> 6 [] c = "7" -> 7
      [] c = "8" -> 8 [] c = "9" -> 9

\* int(s) of a string of digits
RECURSIVE ToInt(_)
ToInt(digits) ==
    IF digits = <<>> THEN 0
    ELSE 10 * ToInt(SubSeq(digits, 1, Len(digits) - 1)) + DigitVal(digits[Len(digits)])

\* re.IGNORECASE on the letters of the three markers
Upper(c) ==
    CASE c = "a" -> "A" [] c = "e" -> "E" [] c = "f" -> "F"
      [] c = "u" -> "U" [] c = "z" -> "Z" [] OTHER -> c

\* (AFU|ZFU|EFU) at position i
MarkerAt(text, i) ==
    /\ Upper(At(text, i)) \in {"A", "Z", "E"}
    /\ Upper(At(text, i + 1)) = "F"
    /\ Upper(At(text, i + 2)) = "U"

\* \s* from position i: the position of the first character that is no space
RECURSIVE SkipSpaces(_, _)
SkipSpaces(text, i) == IF At(text, i) = " " THEN SkipSpaces(text, i + 1) ELSE i

NoMatch == [found |-> FALSE, type |-> <<>>, month |-> <<>>, day |-> <<>>, end |-> 0]

\* (\d{1,2}) for the day, from position p: two digits when there are two
DayGroup(text, type, month, p) ==
    IF ~IsDigit(At(text, p)) THEN NoMatch
    ELSE IF IsDigit(At(text, p + 1))
         THEN [found |-> TRUE, type |-> type, month |-> month,
               day |-> SubSeq(text, p, p + 1), end |-> p + 2]
         ELSE [found |-> TRUE, type |-> type, month |-> month,
               day |-> SubSeq(text, p, p), end |-> p + 1]

\* (\d{1,2})/ for the month, from position p: two digits and the slash, or,
\* backtracking, one digit and the slash
MonthGroup(text, type, p) ==
    IF IsDigit(At(text, p)) /\ IsDigit(At(text, p + 1)) /\ At(text, p + 2) = "/"
    THEN DayGroup(text, type, SubSeq(text, p, p + 1), p + 3)
    ELSE IF IsDigit(At(text, p)) /\ At(text, p + 1) = "/"
         THEN DayGroup(text, type, SubSeq(text, p, p), p + 2)
         ELSE NoMatch

\* the marker, \)? and \s* from position p
MarkerGroup(text, p) ==
    IF ~MarkerAt(text, p) THEN NoMatch
    ELSE MonthGroup(text, SubSeq(text, p, p + 2),
                    SkipSpaces(text, IF At(text, p + 3) = ")" THEN p + 4 ELSE p + 3))

\* MARKER_DATE_PATTERN matched at position i
MatchAt(text, i) == MarkerGroup(text, IF At(text, i) = "(" THEN i + 1 ELSE i)

\* MARKER_DATE_PATTERN.findall: the groups of the non-overlapping matches,
\* scanning from the left
RECURSIVE FindAllFrom(_, _, _)
FindAllFrom(text, i, m) ==
    IF i > Len(text) THEN <<>>
    ELSE IF m.found
         THEN <<[type |-> m.type, month |-> m.month, day |-> m.day]>>
              \o FindAllFrom(text, m.end, MatchAt(text, m.end))
         ELSE FindAllFrom(text, i + 1, MatchAt(text, i + 1))

FindAll(text) == FindAllFrom(text, 1, MatchAt(text, 1))

\* date(year, month, day) does not raise ValueError
ValidDate(year, month, day) ==
    /\ month \in 1..12
    /\ day >= 1
    /\ day <= DaysInMonth(year, month)

\* lines 100-108: the candidates of the previous, current and next year
RECURSIVE CandidatesFrom(_, _, _, _)
CandidatesFrom(offsets, current_year, month, day) ==
    IF offsets = <<>> THEN <<>>
    ELSE (IF ValidDate(current_year + Head(offsets), month, day)
          THEN <<Ymd2Ord(current_year + Head(offsets), month, day)>>
          ELSE <<>>)
         \o CandidatesFrom(Tail(offsets), current_year, month, day)

\* mutant: the year of the reference is the only candidate year
CandidatesCurrentYear(month, day, reference_date) ==
    CandidatesFrom(<<0>>, YearOf(reference_date), month, day)

Candidates(month, day, reference_date) ==
    CandidatesFrom(<<-1, 0, 1>>, YearOf(reference_date), month, day)

PAST_BIAS_DAYS == 30
MAX_FUTURE_DAYS == 180
MAX_PAST_DAYS == 365

Inf == [finite |-> FALSE, score |-> 0]
Finite(v) == [finite |-> TRUE, score |-> v]

\* mutant: a past candidate scores its plain distance
ScoreCandidateNoBias(candidate, reference_date) ==
    LET days_diff == candidate - reference_date
    IN  IF days_diff > MAX_FUTURE_DAYS THEN Inf
        ELSE IF days_diff < -MAX_PAST_DAYS THEN Inf
        ELSE IF days_diff <= 0 THEN Finite(-days_diff)
        ELSE Finite(days_diff)

\* mutant: no limit on how far back a candidate may lie
ScoreCandidateNoPastLimit(candidate, reference_date) ==
    LET days_diff == candidate - reference_date
    IN  IF days_diff > MAX_FUTURE_DAYS THEN Inf
        ELSE IF days_diff <= 0 THEN Finite(-days_diff - PAST_BIAS_DAYS)
        ELSE Finite(days_diff)

\* score_candidate
ScoreCandidate(candidate, reference_date) ==
    LET days_diff == candidate - reference_date
    IN  IF days_diff > MAX_FUTURE_DAYS THEN Inf
        ELSE IF days_diff < -MAX_PAST_DAYS THEN Inf
        ELSE IF days_diff <= 0 THEN Finite(-days_diff - PAST_BIAS_DAYS)
        ELSE Finite(days_diff)

\* lines 135-136: the candidates with a finite score, with their scores
RECURSIVE ValidScored(_, _)
ValidScored(candidates, reference_date) ==
    IF candidates = <<>> THEN <<>>
    ELSE (IF ScoreCandidate(Head(candidates), reference_date).finite
          THEN <<[c |-> Head(candidates),
                  s |-> ScoreCandidate(Head(candidates), reference_date).score]>>
          ELSE <<>>)
         \o ValidScored(Tail(candidates), reference_date)

\* mutant: the last of the entries of the lowest score
RECURSIVE MinByScoreLast(_, _)
MinByScoreLast(best, rest) ==
    IF rest = <<>> THEN best
    ELSE MinByScoreLast(IF Head(rest).s <= best.s THEN Head(rest) ELSE best, Tail(rest))

\* min(valid, key=...): the first of the entries of the lowest score
RECURSIVE MinByScore(_, _)
MinByScore(best, rest) ==
    IF rest = <<>> THEN best
    ELSE MinByScore(IF Head(rest).s < best.s THEN Head(rest) ELSE best, Tail(rest))

\* lines 138-142
BestOf(valid) ==
    IF valid = <<>> THEN NoneInt ELSE SomeInt(MinByScore(Head(valid), Tail(valid)).c)

\* _resolve_year(month, day, reference_date)
ResolveYear(month, day, reference_date) ==
    BestOf(ValidScored(Candidates(month, day, reference_date), reference_date))

\* lines 60-66: what one match adds to resolved_dates
ResolvedOf(month, day, resolved) ==
    IF ~(1 <= month /\ month <= 12) \/ ~(1 <= day /\ day <= 31) THEN <<>>
    ELSE IF resolved.given THEN <<resolved.val>> ELSE <<>>

\* mutant: the loop ends at the first fragment out of range
RECURSIVE ResolvedDatesStopAtInvalid(_, _)
ResolvedDatesStopAtInvalid(matches, reference_date) ==
    IF matches = <<>> THEN <<>>
    ELSE IF ~(ToInt(Head(matches).month) \in 1..12 /\ ToInt(Head(matches).day) \in 1..31)
         THEN <<>>
         ELSE ResolvedOf(ToInt(Head(matches).month), ToInt(Head(matches).day),
                         ResolveYear(ToInt(Head(matches).month),
                                     ToInt(Head(matches).day), reference_date))
              \o ResolvedDatesStopAtInvalid(Tail(matches), reference_date)

\* lines 51-66: the loop over the matches
RECURSIVE ResolvedDates(_, _)
ResolvedDates(matches, reference_date) ==
    IF matches = <<>> THEN <<>>
    ELSE ResolvedOf(ToInt(Head(matches).month), ToInt(Head(matches).day),
                    ResolveYear(ToInt(Head(matches).month),
                                ToInt(Head(matches).day), reference_date))
         \o ResolvedDates(Tail(matches), reference_date)

\* mutant: the date of the first fragment that resolves
FirstResolved(resolved_dates) ==
    IF resolved_dates = <<>> THEN NoneInt ELSE SomeInt(Head(resolved_dates))

\* lines 68-72: max(resolved_dates), None when there is none
Latest(resolved_dates) ==
    IF resolved_dates = <<>> THEN NoneInt
    ELSE SomeInt(CHOOSE d \in Range(resolved_dates) :
                     \A e \in Range(resolved_dates) : e <= d)

\* reference_date, date.today() by default
ReferenceOf(reference_date) ==
    IF reference_date.given THEN reference_date.val ELSE today

\* extract_follow_up_date(hold_reason, reference_date)
ExtractFollowUpDate(hold_reason, reference_date) ==
    IF hold_reason = <<>> THEN NoneInt
    ELSE Latest(ResolvedDates(FindAll(hold_reason), ReferenceOf(reference_date)))

-----------------------------------------------------------------------------
(* The computed calendar of one year: get_company_holidays(year) for every *)
(* year of a full 400-year cycle of the Gregorian calendar, after which    *)
(* the weekdays of the dates repeat.                                       *)

FirstYear == 2000
NumYears == 400
HolidayYears == FirstYear..(FirstYear + NumYears - 1)

InitHol ==
    /\ today = TodayStart
    /\ csvHolidays = {}
    /\ InitPipe
    /\ InitCalIdle
    /\ InitRefreshIdle
    /\ fnOp = "none"
    /\ fnIn \in {[year |-> y] : y \in HolidayYears}
    /\ fnOut = <<>>

CallGetCompanyHolidays ==
    /\ fnOp = "none"
    /\ fnOp' = "get_company_holidays"
    /\ fnOut' = GetCompanyHolidays(fnIn.year)
    /\ UNCHANGED <<today, csvHolidays, pipeVars, calVars, fnIn, rfVars>>

NextHol == CallGetCompanyHolidays

SpecHol == InitHol /\ [][NextHol]_vars

\* the dates of a set that fall in month m of year y
InMonth(dates, y, m) == {d \in dates : Ord2Ymd(d).year = y /\ Ord2Ymd(d).month = m}
DayOf(n) == Ord2Ymd(n).day

\* C11: for every year Y the Memorial Day entry of get_company_holidays(Y),
\* its only date in May, is the last Monday of May: a Monday dated May 25
\* to May 31 of year Y.
C11_MemorialDayLastMonday ==
    fnOp = "get_company_holidays" =>
        /\ Cardinality(InMonth(fnOut, fnIn.year, 5)) = 1
        /\ \A d \in InMonth(fnOut, fnIn.year, 5) :
               Weekday(d) = 0 /\ DayOf(d) \in 25..31

\* C12: for every year Y the computed holiday set contains the fourth
\* Thursday of November, the one Thursday dated November 22 to 28, and the
\* day immediately after it.
C12_ThanksgivingAndDayAfter ==
    fnOp = "get_company_holidays" =>
        \E d \in fnOut :
            /\ Ord2Ymd(d).year = fnIn.year /\ Ord2Ymd(d).month = 11
            /\ DayOf(d) \in 22..28
            /\ Weekday(d) = 3
            /\ d + 1 \in fnOut

\* Thanksgiving on its latest date, November 28, and the 29th with it
C12_Witness ==
    /\ fnOp = "get_company_holidays"
    /\ Ymd2Ord(fnIn.year, 11, 28) \in fnOut
    /\ Weekday(Ymd2Ord(fnIn.year, 11, 28)) = 3
    /\ Ymd2Ord(fnIn.year, 11, 29) \in fnOut

\* C13: for every year Y get_company_holidays(Y) is a set of exactly 10
\* distinct dates, all of them inside year Y.
C13_TenDatesInsideYear ==
    fnOp = "get_company_holidays" =>
        /\ Cardinality(fnOut) = 10
        /\ \A d \in fnOut : YearOf(d) = fnIn.year

\* a leap year whose Veterans Day is a Thursday, two weeks before Thanksgiving
C13_Witness ==
    /\ fnOp = "get_company_holidays"
    /\ IsLeap(fnIn.year)
    /\ Weekday(Ymd2Ord(fnIn.year, 11, 11)) = 3
    /\ Ymd2Ord(fnIn.year, 11, 25) \in fnOut
    /\ Cardinality(fnOut) = 10

-----------------------------------------------------------------------------
(* Calls of the follow-up date functions: reference dates spread over      *)
(* three years around the leap day of 2024 (2025-01-10 among them) or      *)
(* left to default, every month/day pair for _resolve_year, and hold       *)
(* reasons of up to two marker-tagged fragments in four spellings.         *)

FollowUpStart == Ymd2Ord(2023, 1, 10)
RefEvery == 17
NumRefs == 45
ReferenceDates == {FollowUpStart + RefEvery * k : k \in 0..(NumRefs - 1)}
ReferenceArgs == {NoneInt} \cup {SomeInt(d) : d \in ReferenceDates}

\* "(AFU) ", "(ZFU) ", "EFU " and "(afu)"
FragmentForms ==
    << <<"(", "A", "F", "U", ")", " ">>,
       <<"(", "Z", "F", "U", ")", " ">>,
       <<"E", "F", "U", " ">>,
       <<"(", "a", "f", "u", ")">> >>

\* 12/15, 1/2, 11/30, 07/04, 2/29, 6/31 and, out of range, 13/5, 5/32, 0/10
MonthDays ==
    { [month |-> <<"1", "2">>, day |-> <<"1", "5">>],
      [month |-> <<"1">>, day |-> <<"2">>],
      [month |-> <<"1", "1">>, day |-> <<"3", "0">>],
      [month |-> <<"0", "7">>, day |-> <<"0", "4">>],
      [month |-> <<"2">>, day |-> <<"2", "9">>],
      [month |-> <<"6">>, day |-> <<"3", "1">>],
      [month |-> <<"1", "3">>, day |-> <<"5">>],
      [month |-> <<"5">>, day |-> <<"3", "2">>],
      [month |-> <<"0">>, day |-> <<"1", "0">>] }

Fragments ==
    {[form |-> f, month |-> md.month, day |-> md.day] :
        f \in DOMAIN FragmentForms, md \in MonthDays}

MaxFragments == 2
FragmentLists ==
    UNION {[1..n -> Fragments] : n \in 0..MaxFragments}

\* "AFU call 3/4 ": a marker with no date and a date with no marker
Prefix == <<"A", "F", "U", " ", "c", "a", "l", "l", " ", "3", "/", "4", " ">>
Separator == <<" ", "&", " ">>

FragmentText(f) == FragmentForms[f.form] \o f.month \o <<"/">> \o f.day

RECURSIVE JoinFragments(_)
JoinFragments(fragments) ==
    IF fragments = <<>> THEN <<>>
    ELSE Separator \o FragmentText(Head(fragments)) \o JoinFragments(Tail(fragments))

\* the hold reason that holds the fragments, in their order
TextOf(fragments) == Prefix \o JoinFragments(fragments)

InitFollowUp ==
    /\ today = TodayStart
    /\ csvHolidays = {}
    /\ InitPipe
    /\ InitCalIdle
    /\ InitRefreshIdle
    /\ fnOp = "none"
    /\ fnIn \in {[reference_date |-> r] : r \in ReferenceArgs}
    /\ fnOut = <<>>

CallResolveYear ==
    /\ fnOp = "none"
    /\ fnIn.reference_date.given
    /\ \E month \in 1..12, day \in 1..31 :
          /\ fnIn' = [reference_date |-> fnIn.reference_date,
                      month |-> month, day |-> day]
          /\ fnOut' = ResolveYear(month, day, fnIn.reference_date.val)
    /\ fnOp' = "_resolve_year"
    /\ UNCHANGED <<today, csvHolidays, pipeVars, calVars, rfVars>>

CallExtractFollowUpDate ==
    /\ fnOp = "none"
    /\ \E fragments \in FragmentLists \cup {<<>>} :
          /\ fnIn' = [reference_date |-> fnIn.reference_date,
                      fragments |-> fragments,
                      hold_reason |-> TextOf(fragments)]
          /\ fnOut' = ExtractFollowUpDate(TextOf(fragments), fnIn.reference_date)
    /\ fnOp' = "extract_follow_up_date"
    /\ UNCHANGED <<today, csvHolidays, pipeVars, calVars, rfVars>>

NextFollowUp ==
    \/ CallResolveYear
    \/ CallExtractFollowUpDate

SpecFollowUp == InitFollowUp /\ [][NextFollowUp]_vars

\* the candidates of a fragment: its dates in the three years, from the calendar
CandidateSet(month, day, reference) ==
    {Ymd2Ord(y, month, day) :
        y \in {yy \in (YearOf(reference) - 1)..(YearOf(reference) + 1) :
                  day <= DaysInMonth(yy, month)}}

\* the score of a candidate as stated
StatedScore(c, reference) ==
    IF c <= reference THEN (reference - c) - 30 ELSE c - reference

\* the candidates no more than 365 days back and 180 days ahead
InWindow(cands, reference) ==
    {c \in cands : c - reference <= 180 /\ reference - c <= 365}

\* v is the stated choice among cands: lowest score, the earlier on a tie
LowestScored(v, cands, reference) ==
    /\ v \in cands
    /\ \A c \in cands :
          \/ StatedScore(v, reference) < StatedScore(c, reference)
          \/ StatedScore(v, reference) = StatedScore(c, reference) /\ v <= c

\* C14 (as stated): year resolution returns the candidate among (reference
\* year - 1, reference year, reference year + 1) with the lowest score, a
\* candidate on or before the reference scoring its distance in days minus
\* 30 and a later one its distance in days.
C14_LowestScoreCandidate ==
    (fnOp = "_resolve_year"
       /\ CandidateSet(fnIn.month, fnIn.day, fnIn.reference_date.val) # {}) =>
        /\ fnOut.given
        /\ LowestScored(fnOut.val,
                        CandidateSet(fnIn.month, fnIn.day, fnIn.reference_date.val),
                        fnIn.reference_date.val)

\* C14 (amended): year resolution returns the lowest-scoring candidate among
\* those of the three years that lie no more than 365 days before and no
\* more than 180 days after the reference, the earlier one on a tie, and
\* none when no candidate lies there; 12/15 with reference 2025-01-10
\* resolves to 2024-12-15.
C14_LowestScoreInWindow ==
    fnOp = "_resolve_year" =>
        LET reference == fnIn.reference_date.val
            window == InWindow(CandidateSet(fnIn.month, fnIn.day, reference), reference)
        IN  /\ window = {} => fnOut = NoneInt
            /\ window # {} => fnOut.given /\ LowestScored(fnOut.val, window, reference)
            /\ (fnIn.month = 12 /\ fnIn.day = 15 /\ reference = Ymd2Ord(2025, 1, 10))
                   => fnOut = SomeInt(Ymd2Ord(2024, 12, 15))

\* 12/15 resolved against 2025-01-10
C14_Witness ==
    /\ fnOp = "_resolve_year"
    /\ fnIn.month = 12 /\ fnIn.day = 15
    /\ fnIn.reference_date = SomeInt(Ymd2Ord(2025, 1, 10))
    /\ fnOut = SomeInt(Ymd2Ord(2024, 12, 15))

\* the latest of the dates of a set of optional dates, none when it has none
LatestGiven(results) ==
    LET dates == {r.val : r \in {x \in results : x.given}}
    IN  IF dates = {} THEN NoneInt
        ELSE SomeInt(CHOOSE d \in dates : \A e \in dates : e <= d)

\* what each fragment of a list resolves to in a text of its own
ResolvedAlone(fragments, reference_date) ==
    {ExtractFollowUpDate(TextOf(<<fragments[i]>>), reference_date) :
        i \in DOMAIN fragments}

Reversed(seq) == [i \in DOMAIN seq |-> seq[Len(seq) + 1 - i]]

\* the same month/day fragments, each under the next marker spelling
Retagged(fragments) ==
    [i \in DOMAIN fragments |->
        [fragments[i] EXCEPT !.form = (@ % Len(FragmentForms)) + 1]]

\* C15: extract_follow_up_date returns the latest of the dates its fragments
\* resolve to individually, whatever the order of the fragments in the text
\* and whichever marker tags each of them.
C15_LatestOfFragments ==
    fnOp = "extract_follow_up_date" =>
        /\ fnOut = LatestGiven(ResolvedAlone(fnIn.fragments, fnIn.reference_date))
        /\ fnOut = ExtractFollowUpDate(TextOf(Reversed(fnIn.fragments)),
                                       fnIn.reference_date)
        /\ fnOut = ExtractFollowUpDate(TextOf(Retagged(fnIn.fragments)),
                                       fnIn.reference_date)

\* two fragments under different markers that resolve to different dates,
\* the later date first in the text
C15_Witness ==
    /\ fnOp = "extract_follow_up_date"
    /\ Len(fnIn.fragments) = 2
    /\ fnIn.fragments[1].form # fnIn.fragments[2].form
    /\ LET first == ExtractFollowUpDate(TextOf(<<fnIn.fragments[1]>>), fnIn.reference_date)
           second == ExtractFollowUpDate(TextOf(<<fnIn.fragments[2]>>), fnIn.reference_date)
       IN  /\ first.given /\ second.given
           /\ first.val > second.val
           /\ fnOut = first

\* month in 1..12 and day in 1..31
InRangeFragment(f) == ToInt(f.month) \in 1..12 /\ ToInt(f.day) \in 1..31

\* C16: a fragment whose month is outside 1..12 or whose day is outside
\* 1..31 is dropped: the result is none when no other fragment is there,
\* and otherwise what the text of the remaining fragments alone gives.
C16_InvalidFragmentDropped ==
    fnOp = "extract_follow_up_date" =>
        /\ SelectSeq(fnIn.fragments, InRangeFragment) = <<>> => fnOut = NoneInt
        /\ fnOut = ExtractFollowUpDate(
                       TextOf(SelectSeq(fnIn.fragments, InRangeFragment)),
                       fnIn.reference_date)

\* an out-of-range fragment first, then one that resolves
C16_Witness ==
    /\ fnOp = "extract_follow_up_date"
    /\ Len(fnIn.fragments) = 2
    /\ ~InRangeFragment(fnIn.fragments[1])
    /\ InRangeFragment(fnIn.fragments[2])
    /\ fnOut.given

-----------------------------------------------------------------------------
(* Calls of the stages on their own: Stage 1 on every list of up to        *)
(* MaxTasks raw task rows, Stage 3 on the Stage 1 and Stage 2 results of   *)
(* small inputs, Stage 4 on every sorted historical table of up to         *)
(* MaxDailyRows rows.                                                      *)

StageDate == TodayStart - 1
MaxTasks == 3
MaxPayrollRows == 2
MaxDailyRows == 3

\* tasks of two employees on two cases, inside the period or two days after
\* it, flagged rejected or not; one duration does not parse
TaskPool ==
    {Task(emp, case, day, 600, "Trim", rejected,
          IF case = 1 THEN SomeInt(1250)
          ELSE IF emp = 101 THEN SomeInt(500) ELSE NoneInt) :
        emp \in {101, 102}, case \in {1, 2}, day \in {StageDate, StageDate + 2},
        rejected \in {"Yes", "No"}}

ListsOf(pool, n) == UNION {[1..k -> pool] : k \in 0..n}

Stage1Inputs ==
    {[stage |-> 1, raw_df |-> [columns |-> RawTaskColumns, rows |-> rows],
      start_date |-> StageDate, end_date |-> StageDate] :
        rows \in ListsOf(TaskPool, MaxTasks)}

\* Stage 3: the Stage 1 results of up to two tasks of employees 0, 101 and
\* 102, a duration of 6.5 hours or none
Stage3TaskPool ==
    {Task(emp, 1, StageDate, 600, "Trim", "No", duration) :
        emp \in {0, 101, 102}, duration \in {SomeInt(6500), NoneInt}}

Stage3TaskFrames ==
    {Stage1TaskProcessing([columns |-> RawTaskColumns, rows |-> rows],
                          StageDate, StageDate) :
        rows \in ListsOf(Stage3TaskPool, 2)}

\* payroll rows of two employees of the lookup and of an unknown name, with
\* 0, 0.004 and 7.5 worked hours and a total that does not parse
PayrollPool ==
    {PRow(name, hours.total, hours.rest) :
        name \in {"Ann Lee", "Don William", "Temp One"},
        hours \in {[total |-> Num(0), rest |-> Blank],
                   [total |-> Num(4), rest |-> Blank],
                   [total |-> Num(8000), rest |-> Num(500)],
                   [total |-> Junk, rest |-> Blank]}}

\* the Stage 2 results of the payroll exports of up to MaxPayrollRows rows
Stage3GustoFrames ==
    {Stage2GustoProcessing([header |-> FullHeader, rows |-> rows],
                           GoodName(StageDate), Lookup).value :
        rows \in ListsOf(PayrollPool, MaxPayrollRows)}

Stage3Inputs ==
    {[stage |-> 3, task_df |-> t, gusto_df |-> g] :
        t \in Stage3TaskFrames, g \in Stage3GustoFrames}

\* Stage 4: rows of Ann and Bo on the business day before the reference
\* and on a day of the month before, of efficiency 0, 0.3 %, 80 % and 120 %
DailyRow(l, date, efficiency) ==
    [Date |-> date, EmployeeID |-> IntToStr(l.EmployeeID),
     GustoName |-> l.GustoName, MTName |-> l.MTName, Team |-> l.Team,
     TrainingPlan |-> l.TrainingPlan, WorkHours |-> 800,
     Cases_Worked_On |-> 1, Tasks_Completed |-> 1,
     Tasks_Duration_Hours |-> (efficiency * 8) \div 100,
     Efficiency |-> efficiency]

DailyPool ==
    {DailyRow(Lookup[l], date, efficiency) :
        l \in {1, 3}, date \in {StageDate, StageDate - 28},
        efficiency \in {0, 30, 8000, 12000}}

\* the tables as save_daily writes them: Date descending, EmployeeID ascending
SortedTables ==
    {rows \in ListsOf(DailyPool, MaxDailyRows) :
        \A i, j \in DOMAIN rows : i < j => ~DailyBefore(rows[j], rows[i])}

\* tables in which the Training Plan flag of an employee differs from date
\* to date: every flag of Ann and Bo on the two dates, efficiency 80 %
PlanTables ==
    {rows \in UNION {ListsOf({[DailyRow(Lookup[l], date, 8000)
                                  EXCEPT !.TrainingPlan = plan[<<l, date>>]] :
                                  l \in {1, 3}, date \in {StageDate, StageDate - 28}},
                             MaxDailyRows) :
                         plan \in [{1, 3} \X {StageDate, StageDate - 28} -> {0, 1}]} :
        \A i, j \in DOMAIN rows : i < j => ~DailyBefore(rows[j], rows[i])}

Stage4Inputs ==
    {[stage |-> 4, all_daily_df |-> [columns |-> Stage3Columns, rows |-> rows],
      reference |-> TodayStart] :
        rows \in SortedTables \cup PlanTables}

InitStages ==
    /\ today = TodayStart
    /\ csvHolidays = {}
    /\ InitPipe
    /\ InitCalIdle
    /\ InitRefreshIdle
    /\ fnOp = "none"
    /\ fnIn \in Stage1Inputs \cup Stage3Inputs \cup Stage4Inputs
    /\ fnOut = <<>>

CallStage1 ==
    /\ fnOp = "none"
    /\ fnIn.stage = 1
    /\ fnOp' = "stage1_task_processing"
    /\ fnOut' = Stage1TaskProcessing(fnIn.raw_df, fnIn.start_date, fnIn.end_date)
    /\ UNCHANGED <<today, csvHolidays, pipeVars, calVars, fnIn, rfVars>>

CallStage3 ==
    /\ fnOp = "none"
    /\ fnIn.stage = 3
    /\ fnOp' = "stage3_combine"
    /\ fnOut' = Stage3Combine(fnIn.task_df, fnIn.gusto_df)
    /\ UNCHANGED <<today, csvHolidays, pipeVars, calVars, fnIn, rfVars>>

CallStage4 ==
    /\ fnOp = "none"
    /\ fnIn.stage = 4
    /\ fnOp' = "stage4_aggregated"
    /\ fnOut' = Stage4Aggregated(fnIn.all_daily_df, fnIn.reference)
    /\ UNCHANGED <<today, csvHolidays, pipeVars, calVars, fnIn, rfVars>>

NextStages ==
    \/ CallStage1
    \/ CallStage3
    \/ CallStage4

SpecStages == InitStages /\ [][NextStages]_vars

\* the raw rows i and j have the same (case, timestamp, task name, employee)
SameKey(rows, i, j) ==
    /\ rows[i].CaseNumber = rows[j].CaseNumber
    /\ rows[i].completeDate = rows[j].completeDate
    /\ rows[i].task = rows[j].task
    /\ rows[i].CompletedBY = rows[j].CompletedBY

\* the positions of the raw rows inside the period
InPeriod(rows, start_date, end_date) ==
    {i \in DOMAIN rows : rows[i].completeDate.day \in start_date..end_date}

\* the in-period rows with no in-period rejected row of the same key
Remaining(rows, start_date, end_date) ==
    {i \in InPeriod(rows, start_date, end_date) :
        ~\E j \in InPeriod(rows, start_date, end_date) :
            rows[j].rejected = "Yes" /\ SameKey(rows, i, j)}

\* the durations of the rows at the positions idx, in thousandths of an hour
RECURSIVE DurationSum(_, _)
DurationSum(rows, idx) ==
    IF idx = {} THEN 0
    ELSE LET i == CHOOSE k \in idx : TRUE
         IN  (IF rows[i].Duration.given THEN rows[i].Duration.val ELSE 0)
             + DurationSum(rows, idx \ {i})

\* the aggregate of the rows at the positions idx, all of employee emp
AggregateOver(rows, idx, emp) ==
    [EmployeeID |-> IntToStr(emp),
     Cases_Worked_On |-> Cardinality({rows[i].CaseNumber : i \in idx}),
     Tasks_Completed |-> Cardinality(idx),
     Tasks_Duration_Hours |-> DurationSum(rows, idx) \div 10]

\* C17: Stage 1 leaves out every in-period row whose (case, timestamp, task
\* name, employee) key is the key of an in-period rejected row, that row
\* included, and gives each employee with rows left one row: the distinct
\* cases, the number and the summed duration of the employee's rows left.
C17_RejectedKeysCancel ==
    fnOp = "stage1_task_processing" =>
        LET rows == fnIn.raw_df.rows
            left == Remaining(rows, fnIn.start_date, fnIn.end_date)
            emps == {rows[i].CompletedBY : i \in left}
        IN  /\ Len(fnOut.rows) = Cardinality(emps)
            /\ \A emp \in emps :
                  \E k \in DOMAIN fnOut.rows :
                      fnOut.rows[k] =
                          AggregateOver(rows, {i \in left : rows[i].CompletedBY = emp}, emp)

\* a row and a rejected row of the same key, both in the period, and one
\* more row of the same employee, the only one that is counted
C17_Witness ==
    /\ fnOp = "stage1_task_processing"
    /\ LET rows == fnIn.raw_df.rows
           left == Remaining(rows, fnIn.start_date, fnIn.end_date)
       IN  /\ Len(rows) = 3
           /\ \E i, j \in InPeriod(rows, fnIn.start_date, fnIn.end_date) :
                 /\ rows[i].rejected = "No" /\ rows[j].rejected = "Yes"
                 /\ SameKey(rows, i, j)
           /\ Cardinality(left) = 1
           /\ Len(fnOut.rows) = 1
           /\ fnOut.rows[1].Tasks_Completed = 1

\* the output row r is the join of the payroll row g with the aggregate t
JoinOf(r, g, t) ==
    /\ r.EmployeeID = IntToStr(g.EmployeeID)
    /\ r.EmployeeID = t.EmployeeID
    /\ r.Date = g.Date
    /\ r.GustoName = g.GustoName
    /\ r.Tasks_Duration_Hours = t.Tasks_Duration_Hours

\* C18: in Stage 3 every joined row whose worked hours are 0 has efficiency
\* exactly 0, whatever its task-duration hours, and every efficiency of the
\* output is a number.
C18_ZeroHoursZeroEfficiency ==
    fnOp = "stage3_combine" =>
        LET payroll == Range(fnIn.gusto_df.rows)
            tasks == Range(fnIn.task_df.rows)
            out == Range(fnOut.rows)
        IN  /\ \A r \in out : r.Efficiency \in Int
            /\ \A g \in payroll, t \in tasks :
                  (g.WorkHours = 0 /\ t.EmployeeID = IntToStr(g.EmployeeID)) =>
                      \E r \in out : JoinOf(r, g, t) /\ r.Efficiency = 0
            /\ \A r \in out :
                  (\A g \in payroll, t \in tasks : JoinOf(r, g, t) => g.WorkHours = 0)
                      => r.Efficiency = 0

\* a payroll row of 0 worked hours joined with 6.5 task hours: efficiency 0
C18_Witness ==
    /\ fnOp = "stage3_combine"
    /\ \E g \in Range(fnIn.gusto_df.rows), t \in Range(fnIn.task_df.rows) :
          /\ g.WorkHours = 0
          /\ t.Tasks_Duration_Hours > 0
          /\ \E r \in Range(fnOut.rows) : JoinOf(r, g, t) /\ r.Efficiency = 0
          /\ \A r \in Range(fnOut.rows) : JoinOf(r, g, t) => r.Efficiency = 0

\* the positions of the rows of an employee inside a period that have a
\* nonzero efficiency
NonZeroRows(rows, name, p) ==
    {i \in DOMAIN rows :
        /\ rows[i].MTName = name
        /\ rows[i].Date \in p.start..p.end
        /\ rows[i].Efficiency # 0}

RECURSIVE EfficiencySum(_, _)
EfficiencySum(rows, idx) ==
    IF idx = {} THEN 0
    ELSE LET i == CHOOSE k \in idx : TRUE
         IN  rows[i].Efficiency + EfficiencySum(rows, idx \ {i})

\* the mean of the rows at the positions idx as a fraction, in hundredths
MeanOver(rows, idx) == RoundDiv(EfficiencySum(rows, idx), Cardinality(idx) * 100)

NamesOf(rows) == {rows[i].MTName : i \in DOMAIN rows} \ {NaN}

\* C19 (as stated): in the Stage 4 output an employee with no row of
\* nonzero efficiency inside a period has the 'no data' marker "x" in the
\* column of that metric, and an employee with such rows their mean.
C19_NoDataMarker ==
    (fnOp = "stage4_aggregated" /\ ~fnOut.raised) =>
        \A k \in DOMAIN fnOut.value.rows, p \in PeriodOf(fnIn.reference) :
            LET r == fnOut.value.rows[k]
                rows == fnIn.all_daily_df.rows
                idx == NonZeroRows(rows, r.MTName, p)
            IN  /\ p.column \in fnOut.value.columns
                /\ p.column \in DOMAIN r.eff
                /\ r.eff[p.column] =
                       IF idx = {} THEN XCell ELSE ValCell(MeanOver(rows, idx))

\* C19 (amended): an employee with no row of nonzero efficiency inside a
\* period never has a number for that metric: the column is in the output
\* exactly when some employee has such a row, the employee's cell is then
\* the marker "x" and the cells of the employees who have such rows are
\* the means of these rows; a row of efficiency 0 enters no mean.
C19_NoDataMarkerOrNoColumn ==
    (fnOp = "stage4_aggregated" /\ ~fnOut.raised) =>
        LET rows == fnIn.all_daily_df.rows
            out == fnOut.value
        IN  /\ {out.rows[k].MTName : k \in DOMAIN out.rows} = NamesOf(rows)
            /\ \A k \in DOMAIN out.rows, p \in PeriodOf(fnIn.reference) :
                  LET r == out.rows[k]
                      idx == NonZeroRows(rows, r.MTName, p)
                  IN  /\ DOMAIN r.eff = out.columns \cap EffColumns
                      /\ idx = {} =>
                            /\ p.column \in out.columns <=>
                                   \E n \in NamesOf(rows) : NonZeroRows(rows, n, p) # {}
                            /\ p.column \in out.columns => r.eff[p.column] = XCell
                      /\ idx # {} =>
                            /\ (\E n \in NamesOf(rows) : NonZeroRows(rows, n, p) = {})
                                   => p.column \in out.columns
                            /\ p.column \in out.columns
                                   => r.eff[p.column] = ValCell(MeanOver(rows, idx))

\* in one period an employee has only a row of efficiency 0 and gets "x"
\* while the other has a row of 0 and a row of 80 % and keeps 0.80; in a
\* period where nobody has data the column is left out
C19_Witness ==
    /\ fnOp = "stage4_aggregated" /\ ~fnOut.raised
    /\ LET rows == fnIn.all_daily_df.rows
           out == fnOut.value
       IN  /\ \E p \in PeriodOf(fnIn.reference), k, m \in DOMAIN out.rows :
                 /\ p.column \in out.columns
                 /\ \E i \in DOMAIN rows :
                       /\ rows[i].MTName = out.rows[k].MTName
                       /\ rows[i].Date \in p.start..p.end
                       /\ rows[i].Efficiency = 0
                 /\ NonZeroRows(rows, out.rows[k].MTName, p) = {}
                 /\ out.rows[k].eff[p.column] = XCell
                 /\ \E i \in DOMAIN rows :
                       /\ rows[i].MTName = out.rows[m].MTName
                       /\ rows[i].Date \in p.start..p.end
                       /\ rows[i].Efficiency = 0
                 /\ out.rows[m].eff[p.column] = ValCell(80)
           /\ \E p \in PeriodOf(fnIn.reference) : p.column \notin out.columns

-----------------------------------------------------------------------------
(* The aggregated view after a run of run_full_upload.                     *)

\* C20: the step that completes a run leaves the stored aggregated view
\* equal to Stage 4 of the whole stored table, with a row for every named
\* employee of any of its dates, whatever view was stored before.
C20_ViewIsStage4OfWholeTable ==
    [][\A h \in Handlers :
          (pc[h] = "save_agg" /\ pc'[h] = "done" /\ response'[h].status = "ok") =>
              /\ daily' = daily
              /\ Consistent(aggregated', daily')
              /\ {r.MTName : r \in Range(aggregated'.rows)} = NamesOf(daily'.rows)]_vars

\* a run has completed on a table that holds more rows than the run added:
\* the view has a row for an employee whose rows are all of one date, and
\* that date is not the date of the new rows, which has new_rows rows
C20_Witness ==
    \E h \in Handlers :
        /\ pc[h] = "done"
        /\ response[h].status = "ok"
        /\ response[h].new_rows > 0
        /\ response[h].total_daily_rows > response[h].new_rows
        /\ Consistent(aggregated, daily)
        /\ \E b \in Range(aggregated.rows), d \in DatesOf(daily.rows) :
              /\ \A r \in Range(daily.rows) : r.MTName = b.MTName => r.Date = d
              /\ Cardinality({i \in DOMAIN daily.rows : daily.rows[i].Date = d})
                     # response[h].new_rows


-----------------------------------------------------------------------------
(* Ties and the window of _resolve_year.                                   *)

\* the pairs of surviving candidates of the call that score the same
TiedPairs(month, day, reference) ==
    LET window == InWindow(CandidateSet(month, day, reference), reference)
    IN  {p \in window \X window :
            /\ p[1] < p[2]
            /\ StatedScore(p[1], reference) = StatedScore(p[2], reference)}

\* C21: when two surviving candidates of a year resolution score the same,
\* the result is the one of the earlier year: the candidate on or before the
\* reference, never the one after it.
C21_TieGoesToEarlierYear ==
    fnOp = "_resolve_year" =>
        \A p \in TiedPairs(fnIn.month, fnIn.day, fnIn.reference_date.val) :
            /\ fnOut = SomeInt(p[1])
            /\ p[1] <= fnIn.reference_date.val
            /\ p[2] > fnIn.reference_date.val
            /\ YearOf(p[1]) < YearOf(p[2])

\* a resolution with a tie: the candidate 198 days back (score 168) and the
\* one 168 days ahead, a leap day between them
C21_Witness ==
    /\ fnOp = "_resolve_year"
    /\ <<fnIn.reference_date.val - 198, fnIn.reference_date.val + 168>>
           \in TiedPairs(fnIn.month, fnIn.day, fnIn.reference_date.val)
    /\ fnOut = SomeInt(fnIn.reference_date.val - 198)

\* the dates of a fragment's month/day in the three years around the
\* reference that lie inside the window; none for a month or day out of range
FragmentWindow(f, reference) ==
    IF InRangeFragment(f)
    THEN InWindow(CandidateSet(ToInt(f.month), ToInt(f.day), reference), reference)
    ELSE {}

\* C22: a date returned by _resolve_year or extract_follow_up_date lies no
\* more than 365 days before and no more than 180 days after the reference;
\* a month/day with no valid date of the three years inside that window
\* resolves to none, and a hold reason whose matches all are such gives none.
C22_ResultInsideWindow ==
    /\ fnOp = "_resolve_year" =>
          LET reference == fnIn.reference_date.val
          IN  /\ fnOut.given =>
                    /\ reference - fnOut.val <= 365
                    /\ fnOut.val - reference <= 180
              /\ InWindow(CandidateSet(fnIn.month, fnIn.day, reference), reference) = {}
                    => fnOut = NoneInt
    /\ fnOp = "extract_follow_up_date" =>
          LET reference == IF fnIn.reference_date.given
                           THEN fnIn.reference_date.val ELSE today
          IN  /\ fnOut.given =>
                    /\ reference - fnOut.val <= 365
                    /\ fnOut.val - reference <= 180
              /\ (\A i \in DOMAIN fnIn.fragments :
                     FragmentWindow(fnIn.fragments[i], reference) = {})
                    => fnOut = NoneInt

\* a hold reason whose only match is 2/29, which is a date of one of the
\* three years but more than 180 days ahead or 365 days back: none
C22_Witness ==
    /\ fnOp = "extract_follow_up_date"
    /\ fnIn.reference_date.given
    /\ Len(fnIn.fragments) = 1
    /\ ToInt(fnIn.fragments[1].month) = 2 /\ ToInt(fnIn.fragments[1].day) = 29
    /\ CandidateSet(2, 29, fnIn.reference_date.val) # {}
    /\ fnOut = NoneInt

-----------------------------------------------------------------------------
(* _resolve_year on every reference date of a leap cycle: every day from   *)
(* 2023-01-01 on for four years, with every month/day pair.                *)

ResolveStart == Ymd2Ord(2023, 1, 1)
NumResolveDays == 1461
ResolveDates == ResolveStart..(ResolveStart + NumResolveDays - 1)

InitResolve ==
    /\ today = TodayStart
    /\ csvHolidays = {}
    /\ InitPipe
    /\ InitCalIdle
    /\ InitRefreshIdle
    /\ fnOp = "none"
    /\ fnIn \in {[reference_date |-> SomeInt(d)] : d \in ResolveDates}
    /\ fnOut = <<>>

NextResolve == CallResolveYear

SpecResolve == InitResolve /\ [][NextResolve]_vars

\* month/day is a date of every year: the day is in the month, 2/29 apart
EveryYearDate(month, day) ==
    /\ month \in 1..12
    /\ day >= 1
    /\ day <= DaysInMonth(2023, month)

\* C30: for a month/day that is a date of every year, year resolution
\* returns a date whatever the reference: one of the dates of the three
\* candidate years lies no more than 365 days before and no more than 180
\* days after it.
C30_EveryYearDateResolves ==
    (fnOp = "_resolve_year" /\ EveryYearDate(fnIn.month, fnIn.day)) =>
        LET reference == fnIn.reference_date.val
        IN  /\ fnOut.given
            /\ \E y \in (YearOf(reference) - 1)..(YearOf(reference) + 1) :
                  /\ fnOut.val = Ymd2Ord(y, fnIn.month, fnIn.day)
                  /\ reference - Ymd2Ord(y, fnIn.month, fnIn.day) <= 365
                  /\ Ymd2Ord(y, fnIn.month, fnIn.day) - reference <= 180

\* the date of the reference's own year is more than 180 days ahead and the
\* one of the year before is returned, more than 180 days back
C30_Witness ==
    /\ fnOp = "_resolve_year"
    /\ EveryYearDate(fnIn.month, fnIn.day)
    /\ LET reference == fnIn.reference_date.val
       IN  /\ Ymd2Ord(YearOf(reference), fnIn.month, fnIn.day) - reference > 180
           /\ fnOut = SomeInt(Ymd2Ord(YearOf(reference) - 1, fnIn.month, fnIn.day))
           /\ reference - fnOut.val > 180

-----------------------------------------------------------------------------
(* The columns of the Stage 4 output.                                      *)

\* some employee of the table has a row of nonzero efficiency inside p
SomeoneHasData(rows, p) == \E n \in NamesOf(rows) : NonZeroRows(rows, n, p) # {}

\* C23: a metric column is left out of the Stage 4 output exactly when no
\* employee has a row of nonzero efficiency inside its period; a column for
\* which some employee has such a row is in the output, with the marker "x"
\* in the cells of the employees who have none.
C23_ColumnDroppedIffNoData ==
    (fnOp = "stage4_aggregated" /\ ~fnOut.raised) =>
        LET rows == fnIn.all_daily_df.rows
            out == fnOut.value
        IN  \A p \in PeriodOf(fnIn.reference) :
               /\ p.column \in out.columns <=> SomeoneHasData(rows, p)
               /\ p.column \in out.columns =>
                     \A k \in DOMAIN out.rows :
                        NonZeroRows(rows, out.rows[k].MTName, p) = {}
                            => out.rows[k].eff[p.column] = XCell

-----------------------------------------------------------------------------
(* The periods of Stage 4 on every reference date of a leap cycle: every   *)
(* day from 2023-01-01 on for four years.                                  *)

PeriodStart == Ymd2Ord(2023, 1, 1)
NumPeriodDays == 1461
PeriodDates == PeriodStart..(PeriodStart + NumPeriodDays - 1)

InitPeriods ==
    /\ today = TodayStart
    /\ csvHolidays = {}
    /\ InitPipe
    /\ InitCalIdle
    /\ InitRefreshIdle
    /\ fnOp = "none"
    /\ fnIn \in {[reference |-> d] : d \in PeriodDates}
    /\ fnOut = <<>>

\* lines 266-295: the periods stage4_aggregated computes for an employee
CallStage4Periods ==
    /\ fnOp = "none"
    /\ fnOp' = "stage4_periods"
    /\ fnOut' = PeriodOf(fnIn.reference)
    /\ UNCHANGED <<today, csvHolidays, pipeVars, calVars, fnIn, rfVars>>

NextPeriods == CallStage4Periods

SpecPeriods == InitPeriods /\ [][NextPeriods]_vars

\* the period of a column among the computed ones
PeriodNamed(periods, column) == CHOOSE p \in periods : p.column = column

\* the months since year 0 of the month a date lies in
MonthIndex(d) == Ord2Ymd(d).year * 12 + (Ord2Ymd(d).month - 1)

\* C24: the period of m months ago, m in 1..12, is the calendar month m
\* months before the month of the reference, from its day 1 to its last
\* day, 29 February in a leap year, in the year before when the count
\* passes January; each of the twelve ends the day before the next more
\* recent one starts and the most recent ends the day before the
\* month-to-date period starts, so no two share a day.
C24_TrailingCalendarMonths ==
    fnOp = "stage4_periods" =>
        LET mtd == PeriodNamed(fnOut, "Efficiency_Month_To_Date")
            Month(m) == PeriodNamed(fnOut, MonthLabels[m])
        IN  /\ \A m \in 1..12 :
                  /\ Cardinality({p \in fnOut : p.column = MonthLabels[m]}) = 1
                  /\ MonthIndex(Month(m).start) = MonthIndex(fnIn.reference) - m
                  /\ MonthIndex(Month(m).end) = MonthIndex(Month(m).start)
                  /\ Ord2Ymd(Month(m).start).day = 1
                  /\ Ord2Ymd(Month(m).end + 1).day = 1
                  /\ Month(m).end + 1 = (IF m = 1 THEN mtd.start ELSE Month(m - 1).start)
            /\ \A m, k \in 1..12 :
                  m # k => (Month(m).start..Month(m).end)
                               \cap (Month(k).start..Month(k).end) = {}
            /\ mtd.start..mtd.end = {d \in (fnIn.reference - 31)..fnIn.reference :
                                       MonthIndex(d) = MonthIndex(fnIn.reference)}

\* a reference in March 2024: the previous month ends on 29 February 2024
\* and three months ago is December 2023
C24_Witness ==
    /\ fnOp = "stage4_periods"
    /\ Ord2Ymd(fnIn.reference).year = 2024 /\ Ord2Ymd(fnIn.reference).month = 3
    /\ PeriodNamed(fnOut, "Efficiency_Previous_Month")
          = Period("Efficiency_Previous_Month",
                   [start |-> Ymd2Ord(2024, 2, 1), end |-> Ymd2Ord(2024, 2, 29)])
    /\ PeriodNamed(fnOut, "Efficiency_3_Months_Ago")
          = Period("Efficiency_3_Months_Ago",
                   [start |-> Ymd2Ord(2023, 12, 1), end |-> Ymd2Ord(2023, 12, 31)])

-----------------------------------------------------------------------------
(* The Training Plan column of the Stage 4 output.                         *)

\* the positions of the rows of an employee on a date
RowsOn(rows, name, d) == {i \in DOMAIN rows : rows[i].MTName = name /\ rows[i].Date = d}

\* C25: the Training Plan of an employee in the Stage 4 output is the flag
\* of the employee's rows on the most recent date of the whole table, and 0
\* for an employee with no row on that date, whatever the flags of the
\* employee's rows on earlier dates.
C25_TrainingPlanOfLatestDate ==
    (fnOp = "stage4_aggregated" /\ ~fnOut.raised /\ fnIn.all_daily_df.rows # <<>>) =>
        LET rows == fnIn.all_daily_df.rows
            latest == CHOOSE d \in {rows[i].Date : i \in DOMAIN rows} :
                          \A i \in DOMAIN rows : rows[i].Date <= d
        IN  \A k \in DOMAIN fnOut.value.rows :
               LET r == fnOut.value.rows[k]
               IN  /\ \A i \in RowsOn(rows, r.MTName, latest) :
                          r.TrainingPlan = rows[i].TrainingPlan
                   /\ RowsOn(rows, r.MTName, latest) = {} => r.TrainingPlan = 0

\* an employee flagged 1 on the earlier date only gets 0, and the employee
\* of the most recent date, flagged 0 earlier and 1 now, gets 1
C25_Witness ==
    /\ fnOp = "stage4_aggregated" /\ ~fnOut.raised
    /\ LET rows == fnIn.all_daily_df.rows
       IN  \E k, m \in DOMAIN fnOut.value.rows :
              LET gone == fnOut.value.rows[k]
                  here == fnOut.value.rows[m]
              IN  /\ RowsOn(rows, gone.MTName, StageDate) = {}
                  /\ \E i \in RowsOn(rows, gone.MTName, StageDate - 28) :
                        rows[i].TrainingPlan = 1
                  /\ gone.TrainingPlan = 0
                  /\ \E i \in RowsOn(rows, here.MTName, StageDate) :
                        rows[i].TrainingPlan = 1
                  /\ \E i \in RowsOn(rows, here.MTName, StageDate - 28) :
                        rows[i].TrainingPlan = 0
                  /\ here.TrainingPlan = 1

-----------------------------------------------------------------------------
(* A run of run_full_upload whose Stage 1 result has no row.               *)

\* handler h takes the step from position a to position b
Steps(h, a, b) == pc[h] = a /\ pc'[h] = b

\* what a run without new rows does to the stored table and the view, the
\* stored table expected to become kept: Stage 3 gives no row when Stage 1
\* gave none, no later step of the run fails, and the view saved is Stage 4
\* of the table saved
RunWithoutNewRows(h, kept) ==
    /\ (Steps(h, "parse", "merge") /\ req'[h].task_df.rows = <<>>)
           => req'[h].daily_new.rows = <<>>
    /\ (pc[h] \in {"merge", "save_daily", "stage4", "save_agg"}
           /\ req[h].daily_new.rows = <<>>) =>
           /\ pc'[h] = "done" => (pc[h] = "save_agg" /\ response'[h].status = "ok"
                                    /\ response'[h].new_rows = 0
                                    /\ response'[h].total_daily_rows = Len(daily.rows))
           /\ Steps(h, "save_daily", "stage4") => daily' = kept
           /\ Steps(h, "save_agg", "done") => Consistent(aggregated', daily)
           /\ ~Steps(h, "save_daily", "stage4") => daily' = daily

\* C26: a run whose Stage 1 result has no row has no new row from Stage 3
\* and ends with status ok; its save leaves the stored table with the rows
\* it had, as load_daily returns them, and the view it saves is Stage 4 of
\* that table.
C26_ZeroRowsRunEndsOk ==
    [][\A h \in Handlers : RunWithoutNewRows(h, LoadDaily(daily))]_vars

-----------------------------------------------------------------------------
(* refresh_loop from 11:59:30 of a Friday or of the day before Christmas   *)
(* to 15:02 of the day after.  The queries of an iteration take no time or *)
(* half a minute; the wall clock may be set back half a minute during a    *)
(* sleep.                                                                  *)

MaxLoopDays == 1
MaxClockSteps == 1
LoopStartDays == {Ymd2Ord(2025, 12, 5), Ymd2Ord(2025, 12, 24)}
LoopStartSeconds == 12 * 3600 - 30
LoopEndSeconds == 15 * 3600 + 120
WorkSeconds == {0, REFRESH_INTERVAL_SECONDS \div 2}
SetBackSeconds == REFRESH_INTERVAL_SECONDS \div 2

\* what gather returns: a frame for every query, or an exception for every
\* query (the database is unreachable)
QueryResults ==
    {[name \in QueryNames |-> "frame"], [name \in QueryNames |-> "raises"]}

InitRefresh ==
    /\ today \in LoopStartDays
    /\ csvHolidays = {}
    /\ InitPipe
    /\ InitCalIdle
    /\ InitFnIdle
    /\ clock = LoopStartSeconds
    /\ loopPc = "top"
    /\ loopStart = today
    /\ fired = {}
    /\ jobs = <<>>
    /\ failures = 0
    /\ cache = NewCache
    /\ clockSteps = 0

\* lines 157-172 for the now of the iteration
MiddayJobs(day, seconds) ==
    IF IsBusinessDay(day, GetAllCompanyHolidays)
    THEN /\ fired' = FiredAfter(day, DueWindows(day, seconds, fired), fired)
         /\ jobs' = jobs \o
                [i \in 1..Cardinality(DueWindows(day, seconds, fired)) |->
                    [window |-> CHOOSE w \in DueWindows(day, seconds, fired) : TRUE,
                     day |-> day]]
    ELSE UNCHANGED <<fired, jobs>>

\* lines 134-151: inside business hours, the refresh and what it leaves
RefreshNow(got, finished) ==
    /\ cache' = AfterRefresh(RefreshAllQueries(SetPaused(cache, FALSE), got, finished),
                             failures).cache
    /\ failures' = AfterRefresh(RefreshAllQueries(SetPaused(cache, FALSE), got, finished),
                                failures).failures
    /\ today' = finished.day
    /\ clock' = finished.sec

\* lines 131-172: one iteration of the loop up to its sleep
Iterate ==
    /\ loopPc = "top"
    /\ today - loopStart <= MaxLoopDays
    /\ today - loopStart = MaxLoopDays => clock < LoopEndSeconds
    /\ IF IsBusinessHours(clock)
       THEN \E work \in WorkSeconds, got \in QueryResults :
                RefreshNow(got, Later(today, clock, work))
       ELSE /\ cache' = SetPaused(cache, TRUE)
            /\ UNCHANGED <<today, clock, failures>>
    /\ MiddayJobs(today, clock)
    /\ loopPc' = "sleep"
    /\ UNCHANGED <<csvHolidays, pipeVars, calVars, fnVars, loopStart, clockSteps>>

\* the wall clock after a sleep during which it was set back by back seconds
Slept(back) ==
    /\ today' = Later(today, clock, REFRESH_INTERVAL_SECONDS - back).day
    /\ clock' = Later(today, clock, REFRESH_INTERVAL_SECONDS - back).sec
    /\ clockSteps' = IF back = 0 THEN clockSteps ELSE clockSteps + 1

\* line 174: await asyncio.sleep(REFRESH_INTERVAL_SECONDS)
Sleep ==
    /\ loopPc = "sleep"
    /\ \/ Slept(0)
       \/ clockSteps < MaxClockSteps /\ Slept(SetBackSeconds)
    /\ loopPc' = "top"
    /\ UNCHANGED <<csvHolidays, pipeVars, calVars, fnVars, loopStart, fired, jobs,
                   failures, cache>>

NextRefresh ==
    \/ Iterate
    \/ Sleep

SpecRefresh == InitRefresh /\ [][NextRefresh]_vars

\* C27: each midday job, noon and 3pm, is started at most once for a
\* calendar day, and never for a Saturday, a Sunday or a company holiday.
C27_MiddayJobOncePerBusinessDay ==
    /\ \A i, j \in DOMAIN jobs :
          (jobs[i].window = jobs[j].window /\ jobs[i].day = jobs[j].day) => i = j
    /\ \A i \in DOMAIN jobs :
          /\ jobs[i].window \in {"noon", "3pm"}
          /\ Weekday(jobs[i].day) \notin {5, 6}
          /\ jobs[i].day \notin {Ymd2Ord(2025, 12, 25), Ymd2Ord(2025, 12, 26),
                                 Ymd2Ord(2026, 1, 1), Ymd2Ord(2026, 1, 2)}

\* the day after the start, not a business day, after both windows, the
\* wall clock set back once: the two jobs of the first day and no other
C27_Witness ==
    /\ today = loopStart + 1
    /\ clock > 15 * 3600 + 60
    /\ clockSteps = 1
    /\ jobs = <<[window |-> "noon", day |-> loopStart],
                [window |-> "3pm", day |-> loopStart]>>
    /\ fired = {<<"noon", loopStart>>, <<"3pm", loopStart>>}

(***************************************************************************)
(* C28: on every business day on which the refresh loop is running the     *)
(* noon job is started between 12:00:00 and 12:00:59 and the 3PM job       *)
(* between 15:00:00 and 15:00:59.  Stated for the day the loop was started *)
(* on, with a wall clock that was never set back: once the minute is over, *)
(* the job of that window and day has been started.                        *)
(***************************************************************************)
StartedToday(window) ==
    \E i \in 1..Len(jobs) : jobs[i] = [window |-> window, day |-> today]

MinuteOver(window) == clock >= MiddayHour(window) * 3600 + 60

C28_MiddayJobInItsMinute ==
    (/\ loopPc \in {"top", "sleep"}
     /\ today = loopStart
     /\ clockSteps = 0
     /\ IsBusinessDay(today, GetAllCompanyHolidays))
        => \A window \in {"noon", "3pm"} :
               MinuteOver(window) => StartedToday(window)

(***************************************************************************)
(* C29: when the queries of a refresh cycle fail, the loop sets the        *)
(* cache's refresh_error and increments its consecutive-failure count.     *)
(* Stated for a cycle in business hours after which the cache holds no     *)
(* query's result, which is a cycle in which every query failed.           *)
(***************************************************************************)
C29_FailedCycleIsRecorded ==
    [][(/\ loopPc = "top"
        /\ loopPc' = "sleep"
        /\ IsBusinessHours(clock)
        /\ cache'.store = {})
           => (/\ cache'.refresh_error.given
               /\ failures' = failures + 1)]_vars
=============================================================================
